---- MODULE Spec2Model ----
(***************************************************************************)
(* A model of the pyx preprocessor (src/scripts/pyx.py): the includer,     *)
(* the namespace extractor, the definition parser, the expansion driver    *)
(* and the assembler with its source map.                                  *)
(*                                                                         *)
(* Text is modelled character by character: a line's content is a TLA+     *)
(* string that ends with "\n" exactly when the Python string does.         *)
(* Positions are 1-based here (Python's index k is position k+1).          *)
(***************************************************************************)
EXTENDS Integers, Sequences, FiniteSets, TLC

VARIABLES
    fs,                 \* the files on disk: path -> sequence of line contents
    main_file,          \* the path given to transpile / generate_output
    is_exec_mode,       \* PyxTranspiler.is_exec_mode
    no_header,          \* args.no_header
    no_original,        \* args.no_original
    pc,                 \* the stage the run is in
    visited,            \* expand_files: the visited set
    stack,              \* expand_files: the call stack, innermost frame last
    all_lines,          \* transpile: the result of expand_files
    namespaces,         \* PyxTranspiler.namespaces
    active_definitions, \* PyxTranspiler.active_definitions (insertion-ordered)
    mod_value,          \* PyxTranspiler.mod_value (<<>> is None)
    raw_code_lines,     \* transpile: the work queue
    i,                  \* transpile: the driver index (0-based, as in the code)
    expansion_counter,  \* transpile: expansion_counter
    cases_indent_level, \* transpile: cases_indent_level
    final_sl_lines,     \* transpile: the emit stream
    error,              \* the exception that ended transpile (<<>> when none)
    final_output_lines, \* generate_output: the chunks joined into the text
    line_mapping,       \* generate_output: the source map
    hist                \* observations of the run kept for the properties

vars == <<fs, main_file, is_exec_mode, no_header, no_original, pc, visited,
          stack, all_lines, namespaces, active_definitions, mod_value,
          raw_code_lines, i, expansion_counter, cases_indent_level,
          final_sl_lines, error, final_output_lines, line_mapping, hist>>

-----------------------------------------------------------------------------
(* The functions of the program *)

\* The functions of the program and the loops inside them call one another
\* through Call, which is defined after them: F(a, b) is the call of the
\* function whose text is the definition py_F below.
RECURSIVE Call(_, _)


Replace(s, old, new) == Call("Replace", <<s, old, new>>)

SplitWS(s) == Call("SplitWS", <<s>>)

SplitWS1(s) == Call("SplitWS1", <<s>>)

WordBoundary(s, k) == Call("WordBoundary", <<s, k>>)

IndexSafeScan(text, target, k, in_sq, in_dq, escape) == Call("IndexSafeScan", <<text, target, k, in_sq, in_dq, escape>>)

is_index_safe(text, target) == Call("is_index_safe", <<text, target>>)

IntToStr(n) == Call("IntToStr", <<n>>)

DigitsVal(s) == Call("DigitsVal", <<s>>)

SplitArgsScan(text, k, st) == Call("SplitArgsScan", <<text, k, st>>)

smart_split_args(text) == Call("smart_split_args", <<text>>)

SubWord(text, k, val, p) == Call("SubWord", <<text, k, val, p>>)

safe_replace(text, mapping) == Call("safe_replace", <<text, mapping>>)


FirstValid(source_lines) == Call("FirstValid", <<source_lines>>)

dedent_block(source_lines) == Call("dedent_block", <<source_lines>>)

ParseAtom(s, k0) == Call("ParseAtom", <<s, k0>>)

ParseFactor(s, k0) == Call("ParseFactor", <<s, k0>>)

ParseTermRest(s, acc, k0) == Call("ParseTermRest", <<s, acc, k0>>)

ParseTerm(s, k) == Call("ParseTerm", <<s, k>>)

ParseExprRest(s, acc, k0) == Call("ParseExprRest", <<s, acc, k0>>)

ParseExpr(s, k) == Call("ParseExpr", <<s, k>>)

EvalArith(text) == Call("EvalArith", <<text>>)

IsMathText(text) == Call("IsMathText", <<text>>)

OutsideArith(text) == Call("OutsideArith", <<text>>)

try_eval_math(text0) == Call("try_eval_math", <<text0>>)

SplitOn(s, sep) == Call("SplitOn", <<s, sep>>)

PyInt(text0) == Call("PyInt", <<text0>>)

SubLen(text, replacements, p) == Call("SubLen", <<text, replacements, p>>)

PySlice(val, start, end, step) == Call("PySlice", <<val, start, end, step>>)

sub_accessor(group0, var_name, content, replacements) == Call("sub_accessor", <<group0, var_name, content, replacements>>)

SubAccessor(text, replacements, p) == Call("SubAccessor", <<text, replacements, p>>)

process_macro_ops(text, replacements) == Call("process_macro_ops", <<text, replacements>>)

IsIdentifier(t) == Call("IsIdentifier", <<t>>)

Operand(t0) == Call("Operand", <<t0>>)

CmpOp(expr) == Call("CmpOp", <<expr>>)

evaluate_condition(expr) == Call("evaluate_condition", <<expr>>)

MatchCond(sline, kw) == Call("MatchCond", <<sline, kw>>)

MatchElse(sline) == Call("MatchElse", <<sline>>)

extract_block(source_lines, start_idx, base_indent_len) == Call("extract_block", <<source_lines, start_idx, base_indent_len>>)

BranchBlock(source_lines, k, inline) == Call("BranchBlock", <<source_lines, k, inline>>)

CondText(raw_expr, replacements) == Call("CondText", <<raw_expr, replacements>>)

ChainRest(source_lines, replacements, k, chain_processed, block_to_append) == Call("ChainRest", <<source_lines, replacements, k, chain_processed, block_to_append>>)

CondFrom(source_lines, replacements, k) == Call("CondFrom", <<source_lines, replacements, k>>)

process_conditionals(source_lines, replacements) == Call("process_conditionals", <<source_lines, replacements>>)

ParseParams(raw_args) == Call("ParseParams", <<raw_args>>)

StripTrailingBlank(lines) == Call("StripTrailingBlank", <<lines>>)

Definition(name_part, args_str, body_source_lines, is_macro, is_debug) == Call("Definition", <<name_part, args_str, body_source_lines, is_macro, is_debug>>)

AfterDebug(sline) == Call("AfterDebug", <<sline>>)

DefineAt(sline, d) == Call("DefineAt", <<sline, d>>)

match_define(sline) == Call("match_define", <<sline>>)

MacroAt(sline, d) == Call("MacroAt", <<sline, d>>)

match_macro(sline) == Call("match_macro", <<sline>>)

BlockBody(source_lines, k) == Call("BlockBody", <<source_lines, k>>)

Register(table, d) == Call("Register", <<table, d>>)

ParseLoop(source_lines, k, definitions, raw_sl_lines) == Call("ParseLoop", <<source_lines, k, definitions, raw_sl_lines>>)

parse_namespace_content(source_lines) == Call("parse_namespace_content", <<source_lines>>)

MergeDefinitions(active, defs) == Call("MergeDefinitions", <<active, defs>>)

get_active_definition(active, exec, name) == Call("get_active_definition", <<active, exec, name>>)

BindReceiver(definition, caller_obj) == Call("BindReceiver", <<definition, caller_obj>>)

BindParams(m, params, call_args, used_args_count) == Call("BindParams", <<m, params, call_args, used_args_count>>)

RewriteLines(lines, replacements) == Call("RewriteLines", <<lines, replacements>>)

Erase(original_sl, match_str) == Call("Erase", <<original_sl, match_str>>)

PlaceBody(final_lines, original_sl, match_str) == Call("PlaceBody", <<final_lines, original_sl, match_str>>)

expand_body(definition, call_args, original_sl, match_str, caller_obj) == Call("expand_body", <<definition, call_args, original_sl, match_str, caller_obj>>)

DefineMatches(text, name, p) == Call("DefineMatches", <<text, name, p>>)

MacroMatches(text, name, p) == Call("MacroMatches", <<text, name, p>>)

SkipIndexGroups(text, e) == Call("SkipIndexGroups", <<text, e>>)

ReceiverEnd(text, p) == Call("ReceiverEnd", <<text, p>>)

MethodMatches(text, name, p) == Call("MethodMatches", <<text, name, p>>)

CloseParen(text, k, depth, in_quote, quote_char, escape) == Call("CloseParen", <<text, k, depth, in_quote, quote_char, escape>>)

SafeDefineMatches(text, name) == Call("SafeDefineMatches", <<text, name>>)

SafeCallMatches(text, matches) == Call("SafeCallMatches", <<text, matches>>)

CallArgs(args_str) == Call("CallArgs", <<args_str>>)

ExpandName(active, exec, sl, name) == Call("ExpandName", <<active, exec, sl, name>>)

ExpandFrom(active, exec, sl, q) == Call("ExpandFrom", <<active, exec, sl, q>>)

process_line_expansion(active, exec, sl) == Call("process_line_expansion", <<active, exec, sl>>)

CommentScan(text, k, in_sq, in_dq, escape) == Call("CommentScan", <<text, k, in_sq, in_dq, escape>>)

split_comment(text) == Call("split_comment", <<text>>)

process_mod_ops(text, mod) == Call("process_mod_ops", <<text, mod>>)

DefName(stripped) == Call("DefName", <<stripped>>)

CallMatches(text, name, p) == Call("CallMatches", <<text, name, p>>)

RecursionScan(source_lines, k, scope_stack) == Call("RecursionScan", <<source_lines, k, scope_stack>>)

detect_recursion(source_lines) == Call("detect_recursion", <<source_lines>>)

SplitWSMax(s, n) == Call("SplitWSMax", <<s, n>>)



expand_files(files, filepath, seen) == Call("expand_files", <<files, filepath, seen>>)

ExpandLoop(files, raw_sl_lines, k, expanded_lines, seen) == Call("ExpandLoop", <<files, raw_sl_lines, k, expanded_lines, seen>>)

ExtractLoop(source_lines, k, main_lines, current_ns, buffer, ns) == Call("ExtractLoop", <<source_lines, k, main_lines, current_ns, buffer, ns>>)

extract_namespaces(source_lines, ns) == Call("extract_namespaces", <<source_lines, ns>>)

Prologue(lines) == Call("Prologue", <<lines>>)

UsingLoop(target_ns_list, k, ns, active, all_raw_codes) == Call("UsingLoop", <<target_ns_list, k, ns, active, all_raw_codes>>)

debug_match(content) == Call("debug_match", <<content>>)

Stripped(sl, exec) == Call("Stripped", <<sl, exec>>)

Decide(d, exec) == Call("Decide", <<d, exec>>)

DoUsing(d, ns) == Call("DoUsing", <<d, ns>>)

DoMod(d) == Call("DoMod", <<d>>)

DoExpandError(d, exec) == Call("DoExpandError", <<d, exec>>)

DoInfiniteExpansion(d) == Call("DoInfiniteExpansion", <<d>>)

DoExpand(d, exec) == Call("DoExpand", <<d, exec>>)

DoCases(d, exec) == Call("DoCases", <<d, exec>>)

DoEmit(d, exec) == Call("DoEmit", <<d, exec>>)

DriverStep(d, ns, exec) == Call("DriverStep", <<d, ns, exec>>)
Iterate(d, ns, exec) == Call("Iterate", <<d, ns, exec>>)

RunDriver(d, ns, exec) == Call("RunDriver", <<d, ns, exec>>)

transpile(files, filepath, exec) == Call("transpile", <<files, filepath, exec>>)

-----------------------------------------------------------------------------
(* Characters and strings *)

\* s[a-1:b] in Python terms: positions a..b of s, cut to what s holds
Sub(s, a, b) ==
    LET lo == IF a < 1 THEN 1 ELSE a
        hi == IF b > Len(s) THEN Len(s) ELSE b
    IN IF lo > hi THEN SubSeq(s, 1, 0) ELSE SubSeq(s, lo, hi)

\* the character at position k ("" outside s)
Ch(s, k) == Sub(s, k, k)

Digits == {"0", "1", "2", "3", "4", "5", "6", "7", "8", "9"}

Lower == {"a", "b", "c", "d", "e", "f", "g", "h", "i", "j", "k", "l", "m",
          "n", "o", "p", "q", "r", "s", "t", "u", "v", "w", "x", "y", "z"}

Upper == {"A", "B", "C", "D", "E", "F", "G", "H", "I", "J", "K", "L", "M",
          "N", "O", "P", "Q", "R", "S", "T", "U", "V", "W", "X", "Y", "Z"}

\* \w of Python's re on str patterns, restricted to ASCII
IsWord(c) == c \in (Digits \cup Lower \cup Upper \cup {"_"})

\* \s of Python's re, and the characters str.strip() removes
IsSpace(c) == c \in {" ", "\t", "\n", "\r", "\f"}

StartsWith(s, p) == Len(s) >= Len(p) /\ Sub(s, 1, Len(p)) = p

EndsWith(s, p) == Len(s) >= Len(p) /\ Sub(s, Len(s) - Len(p) + 1, Len(s)) = p

\* s[k-1:] in Python terms: the text from position k on
From(s, k) == Sub(s, k, Len(s))

\* whether p occurs in s at position k
At(s, p, k) == k >= 1 /\ k + Len(p) - 1 <= Len(s) /\ Sub(s, k, k + Len(p) - 1) = p

\* the first position >= k whose character is not white space (Len(s)+1 if none)
RECURSIVE SkipSpace(_, _)
SkipSpace(s, k) ==
    IF k <= Len(s) /\ IsSpace(Ch(s, k)) THEN SkipSpace(s, k + 1) ELSE k

\* the first position >= k whose character is white space (Len(s) + 1 if none)
RECURSIVE SkipNonSpace(_, _)
SkipNonSpace(s, k) ==
    IF k <= Len(s) /\ ~IsSpace(Ch(s, k)) THEN SkipNonSpace(s, k + 1) ELSE k

\* the last position <= k whose character is not white space (0 if none)
RECURSIVE SkipSpaceBack(_, _)
SkipSpaceBack(s, k) ==
    IF k >= 1 /\ IsSpace(Ch(s, k)) THEN SkipSpaceBack(s, k - 1) ELSE k

\* str.lstrip(), str.rstrip(), str.strip()
LStrip(s) == From(s, SkipSpace(s, 1))

RStrip(s) == Sub(s, 1, SkipSpaceBack(s, Len(s)))

Strip(s) ==
    LET Right[left \in STRING] == RStrip(left)
    IN Right[LStrip(s)]

\* str.rstrip('\n')
RECURSIVE RStripNL(_)
RStripNL(s) ==
    IF Len(s) > 0 /\ Ch(s, Len(s)) = "\n" THEN RStripNL(Sub(s, 1, Len(s) - 1)) ELSE s

\* the first position >= k at which p occurs in s (0 if none)
RECURSIVE Find(_, _, _)
Find(s, p, k) ==
    IF k + Len(p) - 1 > Len(s) THEN 0
    ELSE IF At(s, p, k) THEN k
    ELSE Find(s, p, k + 1)

Contains(s, p) == Find(s, p, 1) # 0

\* str.replace(old, new) for a non-empty old: every non-overlapping
\* occurrence, left to right
py_Replace(s, old, new) ==
    LET k == Find(s, old, 1) IN
    IF k = 0 THEN s
    ELSE Sub(s, 1, k - 1) \o new \o Replace(From(s, k + Len(old)), old, new)

\* n copies of s
RECURSIVE Repeat(_, _)
Repeat(s, n) == IF n <= 0 THEN "" ELSE s \o Repeat(s, n - 1)

\* "".join(seq)
RECURSIVE Join(_)
Join(seq) == IF seq = <<>> THEN "" ELSE Head(seq) \o Join(Tail(seq))

\* ", ".join(seq)
RECURSIVE JoinComma(_)
JoinComma(seq) ==
    IF seq = <<>> THEN ""
    ELSE IF Len(seq) = 1 THEN Head(seq)
    ELSE Head(seq) \o ", " \o JoinComma(Tail(seq))

\* the end of the run of characters satisfying a class, starting at k:
\* the first position >= k whose character is not in the class
RECURSIVE SkipWord(_, _)
SkipWord(s, k) ==
    IF k <= Len(s) /\ IsWord(Ch(s, k)) THEN SkipWord(s, k + 1) ELSE k

\* str.split(): the white-space separated words of s
py_SplitWS(s) ==
    LET a == SkipSpace(s, 1) IN
    IF a > Len(s) THEN <<>>
    ELSE LET b == CHOOSE e \in a..(Len(s) + 1) :
                      /\ \A q \in a..(e - 1) : ~IsSpace(Ch(s, q))
                      /\ (e = Len(s) + 1 \/ IsSpace(Ch(s, e)))
         IN <<Sub(s, a, b - 1)>> \o SplitWS(From(s, b))

\* str.split(None, 1): at most one split on white space
py_SplitWS1(s) ==
    LET w == SplitWS(s) IN
    IF Len(w) <= 1 THEN w
    ELSE LET a == SkipSpace(s, 1)
             b == a + Len(w[1])
         IN <<w[1], From(s, SkipSpace(s, b))>>

\* re: \b at the gap in front of position k
py_WordBoundary(s, k) ==
    LET before == k - 1 >= 1 /\ k - 1 <= Len(s) /\ IsWord(Ch(s, k - 1))
        after  == k >= 1 /\ k <= Len(s) /\ IsWord(Ch(s, k))
    IN before # after

-----------------------------------------------------------------------------
(* Source lines -- class SourceLine *)

SourceLine(content, filename, lineno) ==
    [content |-> content, filename |-> filename, lineno |-> lineno]

\* get_indent_length
get_indent_length(text) == Len(text) - Len(LStrip(text))

\* re.match(r'^(\s*)', text).group(1)
LeadingSpace(text) == Sub(text, 1, SkipSpace(text, 1) - 1)

\* is_index_safe(text, target_idx), with target the 1-based position
py_IndexSafeScan(text, target, k, in_sq, in_dq, escape) ==
    IF k > Len(text) THEN TRUE
    ELSE IF k = target THEN ~(in_sq \/ in_dq)
    ELSE LET c == Ch(text, k) IN
         IF c = "#" /\ ~in_sq /\ ~in_dq THEN FALSE
         ELSE IF escape THEN IndexSafeScan(text, target, k + 1, in_sq, in_dq, FALSE)
         ELSE IF c = "\\" THEN IndexSafeScan(text, target, k + 1, in_sq, in_dq, TRUE)
         ELSE IF c = "'" /\ ~in_dq THEN IndexSafeScan(text, target, k + 1, ~in_sq, in_dq, FALSE)
         ELSE IF c = "\"" /\ ~in_sq THEN IndexSafeScan(text, target, k + 1, in_sq, ~in_dq, FALSE)
         ELSE IndexSafeScan(text, target, k + 1, in_sq, in_dq, FALSE)

py_is_index_safe(text, target) == IndexSafeScan(text, target, 1, FALSE, FALSE, FALSE)


-----------------------------------------------------------------------------
(* Numbers as text *)

DigitVal(c) ==
    CASE c = "0" -> 0 [] c = "1" -> 1 [] c = "2" -> 2 [] c = "3" -> 3 [] c = "4" -> 4
      [] c = "5" -> 5 [] c = "6" -> 6 [] c = "7" -> 7 [] c = "8" -> 8 [] c = "9" -> 9

DigitChar(n) ==
    CASE n = 0 -> "0" [] n = 1 -> "1" [] n = 2 -> "2" [] n = 3 -> "3" [] n = 4 -> "4"
      [] n = 5 -> "5" [] n = 6 -> "6" [] n = 7 -> "7" [] n = 8 -> "8" [] n = 9 -> "9"

\* str(n) for an int n
RECURSIVE NatToStr(_)
NatToStr(n) == IF n < 10 THEN DigitChar(n) ELSE NatToStr(n \div 10) \o DigitChar(n % 10)

py_IntToStr(n) == IF n < 0 THEN "-" \o NatToStr(0 - n) ELSE NatToStr(n)

\* the end of the run of digits starting at k
RECURSIVE SkipDigits(_, _)
SkipDigits(s, k) ==
    IF k <= Len(s) /\ Ch(s, k) \in Digits THEN SkipDigits(s, k + 1) ELSE k

\* the value of a non-empty string of digits
py_DigitsVal(s) ==
    IF Len(s) = 1 THEN DigitVal(s)
    ELSE 10 * DigitsVal(Sub(s, 1, Len(s) - 1)) + DigitVal(Ch(s, Len(s)))

AllZero(s) == \A k \in 1..Len(s) : Ch(s, k) = "0"

-----------------------------------------------------------------------------
(* smart_split_args *)

\* the scan of smart_split_args: st carries args, current, depth, in_quote,
\* quote_char and escape
py_SplitArgsScan(text, k, st) ==
    IF k > Len(text) THEN
        IF st.current # "" THEN Append(st.args, Strip(st.current)) ELSE st.args
    ELSE LET c == Ch(text, k)
             push == [st EXCEPT !.current = st.current \o c]
         IN
         IF st.escape THEN SplitArgsScan(text, k + 1, [push EXCEPT !.escape = FALSE])
         ELSE IF c = "\\" THEN SplitArgsScan(text, k + 1, [push EXCEPT !.escape = TRUE])
         ELSE IF st.in_quote THEN
             IF c = st.quote_char
             THEN SplitArgsScan(text, k + 1, [push EXCEPT !.in_quote = FALSE, !.quote_char = ""])
             ELSE SplitArgsScan(text, k + 1, push)
         ELSE IF c \in {"\"", "'"} THEN
             SplitArgsScan(text, k + 1, [push EXCEPT !.in_quote = TRUE, !.quote_char = c])
         ELSE IF c \in {"(", "[", "{"} THEN
             SplitArgsScan(text, k + 1, [push EXCEPT !.depth = st.depth + 1])
         ELSE IF c \in {")", "]", "}"} THEN
             SplitArgsScan(text, k + 1, [push EXCEPT !.depth = st.depth - 1])
         ELSE IF c = "," /\ st.depth = 0 THEN
             SplitArgsScan(text, k + 1,
                 [st EXCEPT !.args = Append(st.args, Strip(st.current)), !.current = ""])
         ELSE SplitArgsScan(text, k + 1, push)

NonEmpty(seq) == SelectSeq(seq, LAMBDA a : a # "")

py_smart_split_args(text) ==
    NonEmpty(SplitArgsScan(text, 1,
        [args |-> <<>>, current |-> "", depth |-> 0, in_quote |-> FALSE,
         quote_char |-> "", escape |-> FALSE]))

-----------------------------------------------------------------------------
(* safe_replace *)

\* re.sub(r'\b' + re.escape(k) + r'\b', val, text): the scan from position p
py_SubWord(text, k, val, p) ==
    IF p > Len(text) - Len(k) + 1 THEN From(text, p)
    ELSE IF At(text, k, p) /\ WordBoundary(text, p) /\ WordBoundary(text, p + Len(k))
         THEN val \o SubWord(text, k, val, p + Len(k))
         ELSE Ch(text, p) \o SubWord(text, k, val, p + 1)

\* a binding's value as text: a list is rendered comma-joined
ValStr(b) == IF b.is_list THEN JoinComma(b.list) ELSE b.val

\* safe_replace(text, mapping): the bindings are applied one after the other,
\* in the order they were inserted
py_safe_replace(text, mapping) ==
    IF mapping = <<>> THEN text
    ELSE safe_replace(SubWord(text, Head(mapping).k, ValStr(Head(mapping)), 1),
                      Tail(mapping))

-----------------------------------------------------------------------------
(* dedent_block *)

IsBlank(text) == Strip(text) = ""

py_FirstValid(source_lines) ==
    LET idx == {k \in 1..Len(source_lines) : ~IsBlank(source_lines[k].content)} IN
    IF idx = {} THEN 0 ELSE CHOOSE k \in idx : \A q \in idx : k <= q

py_dedent_block(source_lines) ==
    LET fv == FirstValid(source_lines)
        indent_len == IF fv = 0 THEN 0 ELSE get_indent_length(source_lines[fv].content)
    IN [k \in 1..Len(source_lines) |->
           LET sl == source_lines[k] IN
           IF IsBlank(sl.content) THEN SourceLine("\n", sl.filename, sl.lineno)
           ELSE SourceLine(IF Len(sl.content) >= indent_len
                           THEN From(sl.content, indent_len + 1)
                           ELSE LStrip(sl.content),
                           sl.filename, sl.lineno)]

-----------------------------------------------------------------------------
(* try_eval_math *)

\* The arithmetic that eval() is modelled for: integers, unary and binary
\* + and -, *, parentheses, white space between tokens.  A parse result is
\* [ok, val, pos], pos the position after what was read.
ParseFail == [ok |-> FALSE, val |-> 0, pos |-> 0]


py_ParseAtom(s, k0) ==
    LET k == SkipSpace(s, k0) IN
    IF k > Len(s) THEN ParseFail
    ELSE IF Ch(s, k) \in Digits THEN
        LET e == SkipDigits(s, k)
            num == Sub(s, k, e - 1)
        IN IF Len(num) > 1 /\ Ch(num, 1) = "0" /\ ~AllZero(num) THEN ParseFail
           ELSE [ok |-> TRUE, val |-> DigitsVal(num), pos |-> e]
    ELSE IF Ch(s, k) = "(" THEN
        LET r == ParseExpr(s, k + 1)
            c == IF r.ok THEN SkipSpace(s, r.pos) ELSE 0
        IN IF r.ok /\ c <= Len(s) /\ Ch(s, c) = ")"
           THEN [r EXCEPT !.pos = c + 1]
           ELSE ParseFail
    ELSE ParseFail

py_ParseFactor(s, k0) ==
    LET k == SkipSpace(s, k0) IN
    IF k > Len(s) THEN ParseFail
    ELSE IF Ch(s, k) = "+" THEN ParseFactor(s, k + 1)
    ELSE IF Ch(s, k) = "-" THEN
        LET r == ParseFactor(s, k + 1) IN
        IF r.ok THEN [r EXCEPT !.val = 0 - r.val] ELSE ParseFail
    ELSE ParseAtom(s, k)

py_ParseTermRest(s, acc, k0) ==
    LET k == SkipSpace(s, k0) IN
    IF k <= Len(s) /\ Ch(s, k) = "*" THEN
        LET r == ParseFactor(s, k + 1) IN
        IF r.ok THEN ParseTermRest(s, acc * r.val, r.pos) ELSE ParseFail
    ELSE [ok |-> TRUE, val |-> acc, pos |-> k0]

py_ParseTerm(s, k) ==
    LET r == ParseFactor(s, k) IN
    IF r.ok THEN ParseTermRest(s, r.val, r.pos) ELSE ParseFail

py_ParseExprRest(s, acc, k0) ==
    LET k == SkipSpace(s, k0) IN
    IF k <= Len(s) /\ Ch(s, k) \in {"+", "-"} THEN
        LET r == ParseTerm(s, k + 1) IN
        IF r.ok
        THEN ParseExprRest(s, IF Ch(s, k) = "+" THEN acc + r.val ELSE acc - r.val, r.pos)
        ELSE ParseFail
    ELSE [ok |-> TRUE, val |-> acc, pos |-> k0]

py_ParseExpr(s, k) ==
    LET r == ParseTerm(s, k) IN
    IF r.ok THEN ParseExprRest(s, r.val, r.pos) ELSE ParseFail

\* eval(text) of an arithmetic text: [ok, val]; ok is FALSE when eval raises
py_EvalArith(text) ==
    LET r == ParseExpr(text, 1) IN
    IF r.ok /\ SkipSpace(text, r.pos) > Len(text)
    THEN [ok |-> TRUE, val |-> r.val]
    ELSE [ok |-> FALSE, val |-> 0]

\* re.match(r'^[\d\s+\-*/%().]+$', text)
py_IsMathText(text) ==
    /\ text # ""
    /\ \A k \in 1..Len(text) :
           \/ Ch(text, k) \in Digits
           \/ IsSpace(Ch(text, k))
           \/ Ch(text, k) \in {"+", "-", "*", "/", "%", "(", ")", "."}

\* Division, remainder, power, floats and the empty tuple are evaluated by
\* Python but not by EvalArith: the inputs of the model hold none of them,
\* and a text that does is marked instead of being given a made-up value.
py_OutsideArith(text) ==
    \/ \E k \in 1..Len(text) : Ch(text, k) \in {"/", "%", "."}
    \/ Contains(text, "**")
    \/ (Contains(text, "(") /\ Strip(Replace(Replace(text, "(", ""), ")", "")) = "")

\* the argument as it is written
try_eval_math_verbatim(text0) == Strip(text0)

py_try_eval_math(text0) ==
    LET text == Strip(text0) IN
    IF IsMathText(text) THEN
        IF OutsideArith(text) THEN "<eval " \o text \o ">"
        ELSE LET r == EvalArith(text) IN
             IF r.ok THEN IntToStr(r.val) ELSE text
    ELSE text

-----------------------------------------------------------------------------
(* Call-site bindings: the dict `replacements` of expand_body, kept as a    *)
(* sequence in insertion order.  A binding is [k, is_list, val, list].      *)

Scalar(k, v) == [k |-> k, is_list |-> FALSE, val |-> v, list |-> <<>>]

ListVal(k, l) == [k |-> k, is_list |-> TRUE, val |-> "", list |-> l]

\* the index of key k in mapping m (0 when absent)
KeyIndex(m, k) ==
    IF \E q \in 1..Len(m) : m[q].k = k THEN CHOOSE q \in 1..Len(m) : m[q].k = k ELSE 0

\* m[b.k] = b: an existing key keeps its place, a new one is appended
SetKey(m, b) ==
    IF KeyIndex(m, b.k) = 0 THEN Append(m, b) ELSE [m EXCEPT ![KeyIndex(m, b.k)] = b]

-----------------------------------------------------------------------------
(* process_macro_ops *)

IsIdentStart(c) == c \in (Lower \cup Upper \cup {"_"})

\* str.split(sep) for a one-character sep
py_SplitOn(s, sep) ==
    LET k == Find(s, sep, 1) IN
    IF k = 0 THEN <<s>> ELSE <<Sub(s, 1, k - 1)>> \o SplitOn(From(s, k + 1), sep)

\* int(text): [ok, val]; ok is FALSE where int() raises ValueError
py_PyInt(text0) ==
    LET text == Strip(text0)
        signed == text # "" /\ Ch(text, 1) \in {"+", "-"}
        body == IF signed THEN From(text, 2) ELSE text
        plain == Replace(body, "_", "")
        wellformed ==
            /\ body # ""
            /\ \A k \in 1..Len(body) : Ch(body, k) \in (Digits \cup {"_"})
            /\ Ch(body, 1) # "_" /\ Ch(body, Len(body)) # "_"
            /\ ~Contains(body, "__")
    IN IF wellformed
       THEN [ok |-> TRUE,
             val |-> IF signed /\ Ch(text, 1) = "-" THEN 0 - DigitsVal(plain) ELSE DigitsVal(plain)]
       ELSE [ok |-> FALSE, val |-> 0]

\* sub_len: the rewriting of !len( NAME ), scanning from position p
py_SubLen(text, replacements, p) ==
    IF p > Len(text) THEN ""
    ELSE LET q == SkipSpace(text, p + 5)
             e == SkipWord(text, q)
             c == SkipSpace(text, e)
             matched == /\ At(text, "!len(", p)
                        /\ q <= Len(text) /\ IsIdentStart(Ch(text, q))
                        /\ c <= Len(text) /\ Ch(text, c) = ")"
             var_name == Sub(text, q, e - 1)
             idx == KeyIndex(replacements, var_name)
         IN IF matched
            THEN (IF idx = 0 THEN Sub(text, p, c)
                  ELSE IF replacements[idx].is_list
                       THEN IntToStr(Len(replacements[idx].list))
                       ELSE "1")
                 \o SubLen(text, replacements, c + 1)
            ELSE Ch(text, p) \o SubLen(text, replacements, p + 1)

\* the positions val[start:end:step] selects, 0-based, in order
RECURSIVE SliceFrom(_, _, _)
SliceFrom(cur, stop, step) ==
    IF (step > 0 /\ cur >= stop) \/ (step < 0 /\ cur <= stop) THEN <<>>
    ELSE <<cur>> \o SliceFrom(cur + step, stop, step)

SliceClamp(x, n, step) ==
    LET y == IF x < 0 THEN x + n ELSE x IN
    IF y < 0 THEN (IF step < 0 THEN 0 - 1 ELSE 0)
    ELSE IF y >= n THEN (IF step < 0 THEN n - 1 ELSE n)
    ELSE y

py_PySlice(val, start, end, step) ==
    LET n == Len(val)
        idx == SliceFrom(SliceClamp(start, n, step), SliceClamp(end, n, step), step)
    IN [k \in 1..Len(idx) |-> val[idx[k] + 1]]

\* sub_accessor on one match: [err, text]; err holds the message of the
\* RuntimeError it raises
py_sub_accessor(group0, var_name, content, replacements) ==
    LET idx == KeyIndex(replacements, var_name)
        b == replacements[idx]
        keep == [err |-> <<>>, text |-> group0]
    IN
    IF idx = 0 THEN keep
    ELSE IF Contains(content, ":") THEN
        LET val == IF b.is_list THEN b.list ELSE <<b.val>>
            parts == SplitOn(content, ":")
            start_str == Strip(parts[1])
            end_str == Strip(parts[2])
            step_str == IF Len(parts) > 2 THEN Strip(parts[3]) ELSE ""
            start == IF start_str # "" THEN PyInt(start_str) ELSE [ok |-> TRUE, val |-> 0]
            end == IF end_str # "" THEN PyInt(end_str) ELSE [ok |-> TRUE, val |-> Len(val)]
            step == IF step_str # "" THEN PyInt(step_str) ELSE [ok |-> TRUE, val |-> 1]
        IN IF start.ok /\ end.ok /\ step.ok /\ step.val # 0
           THEN [err |-> <<>>, text |-> JoinComma(PySlice(val, start.val, end.val, step.val))]
           ELSE keep
    ELSE
        LET n == PyInt(content) IN
        IF ~n.ok THEN
            [err |-> <<"invalid literal for int() with base 10: '" \o content \o "'">>,
             text |-> group0]
        ELSE IF b.is_list THEN
            IF 0 <= n.val /\ n.val < Len(b.list)
            THEN [err |-> <<>>, text |-> b.list[n.val + 1]]
            ELSE IF 0 - Len(b.list) <= n.val /\ n.val < 0
            THEN [err |-> <<>>, text |-> b.list[Len(b.list) + n.val + 1]]
            ELSE [err |-> <<"Macro index out of range: " \o var_name \o "![" \o IntToStr(n.val)
                            \o "] (len=" \o IntToStr(Len(b.list)) \o ")">>,
                  text |-> group0]
        ELSE IF n.val = 0 THEN [err |-> <<>>, text |-> b.val]
        ELSE [err |-> <<"Cannot use index operator ![] on non-variadic: " \o var_name>>,
              text |-> group0]

\* re.sub(r'([a-zA-Z_]\w*)!\[\s*(.*?)\s*\]', sub_accessor, text), from position p
py_SubAccessor(text, replacements, p) ==
    IF p > Len(text) THEN [err |-> <<>>, text |-> ""]
    ELSE LET e == SkipWord(text, p)
             c == Find(text, "]", e + 2)
             matched == /\ IsIdentStart(Ch(text, p))
                        /\ At(text, "![", e)
                        /\ c # 0
                        /\ ~Contains(Strip(Sub(text, e + 2, c - 1)), "\n")
         IN IF matched THEN
                LET r == sub_accessor(Sub(text, p, c), Sub(text, p, e - 1),
                                      Strip(Sub(text, e + 2, c - 1)), replacements)
                    rest == SubAccessor(text, replacements, c + 1)
                IN IF r.err # <<>> THEN r
                   ELSE [err |-> rest.err, text |-> r.text \o rest.text]
            ELSE LET rest == SubAccessor(text, replacements, p + 1)
                 IN [err |-> rest.err, text |-> Ch(text, p) \o rest.text]

\* process_macro_ops(text, replacements): [err, text]
py_process_macro_ops(text, replacements) ==
    SubAccessor(SubLen(text, replacements, 1), replacements, 1)

-----------------------------------------------------------------------------
(* evaluate_condition *)

py_IsIdentifier(t) ==
    t # "" /\ IsIdentStart(Ch(t, 1)) /\ \A k \in 1..Len(t) : IsWord(Ch(t, k))

\* One operand of a condition: an arithmetic text is an int; a name is
\* looked up in SymbolicContext, whose __missing__ returns the name itself,
\* so it is the string of its own spelling.  [ok, is_int, n, str]
py_Operand(t0) ==
    LET t == Strip(t0) IN
    IF IsMathText(t) /\ ~OutsideArith(t) THEN
        LET r == EvalArith(t) IN [ok |-> r.ok, is_int |-> TRUE, n |-> r.val, str |-> ""]
    ELSE IF IsIdentifier(t) THEN [ok |-> TRUE, is_int |-> FALSE, n |-> 0, str |-> t]
    ELSE [ok |-> FALSE, is_int |-> FALSE, n |-> 0, str |-> ""]

\* the comparison operator of expr: [pos, op] (pos = 0 when there is none)
py_CmpOp(expr) ==
    LET two == {k \in 1..Len(expr) : Sub(expr, k, k + 1) \in {"==", "!=", "<=", ">="}}
        one == {k \in 1..Len(expr) : Ch(expr, k) \in {"<", ">"}}
        first(S) == CHOOSE k \in S : \A q \in S : k <= q
    IN IF two # {} /\ (one = {} \/ first(two) <= first(one))
       THEN [pos |-> first(two), op |-> Sub(expr, first(two), first(two) + 1)]
       ELSE IF one # {} THEN [pos |-> first(one), op |-> Ch(expr, first(one))]
       ELSE [pos |-> 0, op |-> ""]

\* evaluate_condition(expr): bool(eval(expr, {}, SymbolicContext())), False
\* when eval raises.  Modelled for a single operand and for one comparison of
\* two operands; the conditions of the model's inputs are of these forms.
py_evaluate_condition(expr) ==
    LET c == CmpOp(expr) IN
    IF c.pos = 0 THEN
        LET a == Operand(expr) IN
        a.ok /\ (IF a.is_int THEN a.n # 0 ELSE a.str # "")
    ELSE
        LET a == Operand(Sub(expr, 1, c.pos - 1))
            b == Operand(From(expr, c.pos + Len(c.op)))
            same == a.is_int = b.is_int /\ a.n = b.n /\ a.str = b.str
        IN /\ a.ok /\ b.ok
           /\ CASE c.op = "==" -> same
                [] c.op = "!=" -> ~same
                [] c.op = "<"  -> a.is_int /\ b.is_int /\ a.n < b.n
                [] c.op = ">"  -> a.is_int /\ b.is_int /\ a.n > b.n
                [] c.op = "<=" -> a.is_int /\ b.is_int /\ a.n <= b.n
                [] c.op = ">=" -> a.is_int /\ b.is_int /\ a.n >= b.n

-----------------------------------------------------------------------------
(* process_conditionals, extract_block *)

\* re.match(r'^KW\s+(.+?):\s*(.*)$', sline) for KW = "!if" or "!elif":
\* [ok, expr, inline], expr and inline already stripped
py_MatchCond(sline, kw) ==
    LET a == SkipSpace(sline, Len(kw) + 1)
        c == Find(sline, ":", a + 1)
        fail == [ok |-> FALSE, expr |-> "", inline |-> ""]
    IN IF ~StartsWith(sline, kw) \/ a = Len(kw) + 1 \/ a > Len(sline) THEN fail
       ELSE IF c # 0
            THEN [ok |-> TRUE, expr |-> Strip(Sub(sline, a, c - 1)),
                  inline |-> Strip(From(sline, c + 1))]
       ELSE IF Ch(sline, a) = ":" /\ a >= Len(kw) + 3
            THEN [ok |-> TRUE, expr |-> "", inline |-> Strip(From(sline, a + 1))]
       ELSE fail

\* re.match(r'^!else:\s*(.*)$', sline): [ok, inline]
py_MatchElse(sline) ==
    IF StartsWith(sline, "!else:")
    THEN [ok |-> TRUE, inline |-> Strip(From(sline, 7))]
    ELSE [ok |-> FALSE, inline |-> ""]

\* extract_block(source_lines, start_idx, base_indent_len): [block, i], with
\* start_idx and i 1-based positions in source_lines
py_extract_block(source_lines, start_idx, base_indent_len) ==
    IF start_idx > Len(source_lines) THEN [block |-> <<>>, i |-> start_idx]
    ELSE LET sl == source_lines[start_idx] IN
         IF IsBlank(sl.content) \/ get_indent_length(sl.content) > base_indent_len
         THEN LET r == extract_block(source_lines, start_idx + 1, base_indent_len)
              IN [block |-> <<sl>> \o r.block, i |-> r.i]
         ELSE [block |-> <<>>, i |-> start_idx]

\* the block of one branch whose keyword line is source_lines[k]
py_BranchBlock(source_lines, k, inline) ==
    IF inline # ""
    THEN [block |-> <<SourceLine(inline \o "\n", source_lines[k].filename,
                                 source_lines[k].lineno)>>,
          i |-> k + 1]
    ELSE extract_block(source_lines, k + 1, get_indent_length(source_lines[k].content))

\* the rewriting of a condition before it is evaluated: [err, text]
py_CondText(raw_expr, replacements) ==
    LET r == process_macro_ops(raw_expr, replacements) IN
    [err |-> r.err, text |-> safe_replace(r.text, replacements)]

\* the inner loop with the test of chain_processed left out: the last true
\* branch is taken, and the `!else` branch whenever there is one
ChainRest_last_true(source_lines, replacements, k, chain_processed, block_to_append) ==
    IF k > Len(source_lines) THEN [err |-> <<>>, block |-> block_to_append, i |-> k]
    ELSE LET next_sline == Strip(source_lines[k].content)
             match_elif == MatchCond(next_sline, "!elif")
             match_else == MatchElse(next_sline)
         IN
         IF match_elif.ok THEN
             LET expr == CondText(match_elif.expr, replacements)
                 b == BranchBlock(source_lines, k, match_elif.inline)
                 take == evaluate_condition(expr.text)
             IN IF expr.err # <<>> THEN [err |-> expr.err, block |-> <<>>, i |-> k]
                ELSE ChainRest(source_lines, replacements, b.i,
                               chain_processed \/ take,
                               IF take THEN b.block ELSE block_to_append)
         ELSE IF match_else.ok THEN
             LET b == BranchBlock(source_lines, k, match_else.inline) IN
             [err |-> <<>>, block |-> b.block, i |-> b.i]
         ELSE [err |-> <<>>, block |-> block_to_append, i |-> k]

\* the inner while loop of process_conditionals: the !elif and !else
\* branches that follow; [err, block, i]
py_ChainRest(source_lines, replacements, k, chain_processed, block_to_append) ==
    IF k > Len(source_lines) THEN [err |-> <<>>, block |-> block_to_append, i |-> k]
    ELSE LET next_sline == Strip(source_lines[k].content)
             match_elif == MatchCond(next_sline, "!elif")
             match_else == MatchElse(next_sline)
         IN
         IF match_elif.ok THEN
             LET expr == CondText(match_elif.expr, replacements)
                 b == BranchBlock(source_lines, k, match_elif.inline)
                 take == ~chain_processed /\ evaluate_condition(expr.text)
             IN IF expr.err # <<>> THEN [err |-> expr.err, block |-> <<>>, i |-> k]
                ELSE ChainRest(source_lines, replacements, b.i,
                               chain_processed \/ take,
                               IF take THEN b.block ELSE block_to_append)
         ELSE IF match_else.ok THEN
             LET b == BranchBlock(source_lines, k, match_else.inline) IN
             [err |-> <<>>,
              block |-> IF chain_processed THEN block_to_append ELSE b.block,
              i |-> b.i]
         ELSE [err |-> <<>>, block |-> block_to_append, i |-> k]

\* process_conditionals(source_lines, replacements) from line k on: [err, lines]
py_CondFrom(source_lines, replacements, k) ==
    IF k > Len(source_lines) THEN [err |-> <<>>, lines |-> <<>>]
    ELSE LET sl == source_lines[k]
             match_if == MatchCond(Strip(sl.content), "!if")
         IN
         IF match_if.ok THEN
             LET expr == CondText(match_if.expr, replacements)
                 cond_met == evaluate_condition(expr.text)
                 b == BranchBlock(source_lines, k, match_if.inline)
                 chain == ChainRest(source_lines, replacements, b.i, cond_met,
                                    IF cond_met THEN b.block ELSE <<>>)
                 inner == CondFrom(chain.block, replacements, 1)
                 rest == CondFrom(source_lines, replacements, chain.i)
             IN IF expr.err # <<>> THEN [err |-> expr.err, lines |-> <<>>]
                ELSE IF chain.err # <<>> THEN [err |-> chain.err, lines |-> <<>>]
                ELSE IF inner.err # <<>> THEN [err |-> inner.err, lines |-> <<>>]
                ELSE [err |-> rest.err, lines |-> inner.lines \o rest.lines]
         ELSE LET rest == CondFrom(source_lines, replacements, k + 1)
              IN [err |-> rest.err, lines |-> <<sl>> \o rest.lines]

py_process_conditionals(source_lines, replacements) ==
    CondFrom(source_lines, replacements, 1)

-----------------------------------------------------------------------------
(* class Definition *)

\* the parameter list of Definition.__init__, from the split argument texts;
\* a default of <<>> is None
py_ParseParams(raw_args) ==
    IF raw_args = <<>> THEN <<>>
    ELSE LET raw_arg == Strip(Head(raw_args))
             eq == Find(raw_arg, "=", 1)
             param ==
                 IF StartsWith(raw_arg, "*")
                 THEN [name |-> Strip(From(raw_arg, 2)), default |-> <<>>, is_variadic |-> TRUE]
                 ELSE IF eq # 0
                 THEN [name |-> Strip(Sub(raw_arg, 1, eq - 1)),
                       default |-> <<Strip(From(raw_arg, eq + 1))>>, is_variadic |-> FALSE]
                 ELSE [name |-> raw_arg, default |-> <<>>, is_variadic |-> FALSE]
         IN <<param>> \o ParseParams(Tail(raw_args))

\* while self.body_lines and not self.body_lines[-1].content.strip(): pop()
py_StripTrailingBlank(lines) ==
    IF lines # <<>> /\ IsBlank(lines[Len(lines)].content)
    THEN StripTrailingBlank(Sub(lines, 1, Len(lines) - 1))
    ELSE lines

\* Definition(name_part, args_str, body_source_lines, is_macro, is_debug).
\* placeholder "" stands for None, placeholder_vars <<>> for None.
py_Definition(name_part, args_str, body_source_lines, is_macro, is_debug) ==
    LET dot == Find(name_part, ".", 1)
        ph == Strip(Sub(name_part, 1, dot - 1))
        tuple_ph == StartsWith(ph, "(") /\ EndsWith(ph, ")")
        params == IF is_macro /\ Strip(args_str) # ""
                  THEN ParseParams(smart_split_args(args_str)) ELSE <<>>
        variadic == {k \in 1..Len(params) : params[k].is_variadic}
    IN [name |-> IF dot # 0 THEN Strip(From(name_part, dot + 1)) ELSE name_part,
        is_macro |-> is_macro,
        is_debug |-> is_debug,
        is_deleted |-> FALSE,
        body_lines |-> StripTrailingBlank(dedent_block(body_source_lines)),
        params |-> params,
        has_variadic |-> variadic # {},
        variadic_name |-> IF variadic = {} THEN ""
                          ELSE params[CHOOSE k \in variadic : \A q \in variadic : q <= k].name,
        placeholder |-> IF dot = 0 THEN ""
                        ELSE IF StartsWith(ph, "*") THEN From(ph, 2)
                        ELSE ph,
        placeholder_is_variadic |-> dot # 0 /\ StartsWith(ph, "*"),
        placeholder_vars |-> IF dot # 0 /\ ~StartsWith(ph, "*") /\ tuple_ph
                             THEN NonEmpty(LET parts == SplitOn(Sub(ph, 2, Len(ph) - 1), ",")
                                           IN [k \in 1..Len(parts) |-> Strip(parts[k])])
                             ELSE <<>>]

-----------------------------------------------------------------------------
(* parse_namespace_content *)

IsNameChar(c) == IsWord(c) \/ c = "."

IsNamePartChar(c) == IsWord(c) \/ c \in {"*", ".", ",", "(", ")"}

RECURSIVE SkipNameChars(_, _)
SkipNameChars(s, k) ==
    IF k <= Len(s) /\ IsNameChar(Ch(s, k)) THEN SkipNameChars(s, k + 1) ELSE k

RECURSIVE SkipNamePart(_, _)
SkipNamePart(s, k) ==
    IF k <= Len(s) /\ IsNamePartChar(Ch(s, k)) THEN SkipNamePart(s, k + 1) ELSE k

\* (\$debug\s+)? at the head of sline: the position after it (1 when the
\* group matches nothing)
py_AfterDebug(sline) ==
    IF StartsWith(sline, "$debug") /\ SkipSpace(sline, 7) > 7 THEN SkipSpace(sline, 7) ELSE 1

NoMatch == [ok |-> FALSE, is_debug |-> FALSE, name_part |-> "", args_str |-> "",
            inline_body |-> ""]

\* re.match(r'^(\$debug\s+)?!define\s+([a-zA-Z0-9_.]+)\s*:\s*(.*)$', sline),
\* tried with and without the optional group
py_DefineAt(sline, d) ==
    LET n0 == SkipSpace(sline, d + 7)
        n1 == SkipNameChars(sline, n0)
        c == SkipSpace(sline, n1)
    IN IF /\ At(sline, "!define", d) /\ n0 > d + 7 /\ n1 > n0 /\ Ch(sline, c) = ":"
       THEN [ok |-> TRUE, is_debug |-> d > 1, name_part |-> Sub(sline, n0, n1 - 1),
             args_str |-> "", inline_body |-> From(sline, SkipSpace(sline, c + 1))]
       ELSE NoMatch

py_match_define(sline) ==
    IF DefineAt(sline, AfterDebug(sline)).ok THEN DefineAt(sline, AfterDebug(sline))
    ELSE DefineAt(sline, 1)

\* re.match(r'^(\$debug\s+)?!(macro|method)\s+([*a-zA-Z0-9_.,()]+)\s*\((.*?)\)\s*:\s*(.*)$', sline):
\* the name part is taken as long as a match allows (greedy), the argument
\* text as short as a match allows (lazy)
py_MacroAt(sline, d) ==
    LET kw == IF At(sline, "!macro", d) THEN 6 ELSE IF At(sline, "!method", d) THEN 7 ELSE 0
        n0 == SkipSpace(sline, d + kw)
        n1 == SkipNamePart(sline, n0)
        \* the positions of the "(" that opens the argument list, one per name end
        Open(e) == IF e = n1 THEN SkipSpace(sline, e) ELSE e
        \* the ")" positions after which \s*: follows
        Closers(e) == {c \in (Open(e) + 1)..Len(sline) :
                          Ch(sline, c) = ")" /\ Ch(sline, SkipSpace(sline, c + 1)) = ":"}
        ends == {e \in (n0 + 1)..n1 : Ch(sline, Open(e)) = "(" /\ Closers(e) # {}}
        e == CHOOSE x \in ends : \A y \in ends : y <= x
        c == CHOOSE x \in Closers(e) : \A y \in Closers(e) : x <= y
        colon == SkipSpace(sline, c + 1)
    IN IF kw # 0 /\ n0 > d + kw /\ ends # {}
       THEN [ok |-> TRUE, is_debug |-> d > 1, name_part |-> Sub(sline, n0, e - 1),
             args_str |-> Sub(sline, Open(e) + 1, c - 1),
             inline_body |-> From(sline, SkipSpace(sline, colon + 1))]
       ELSE NoMatch

py_match_macro(sline) ==
    IF MacroAt(sline, AfterDebug(sline)).ok THEN MacroAt(sline, AfterDebug(sline))
    ELSE MacroAt(sline, 1)

\* the block body that follows a declaration at position k: the lines up to
\* the first non-blank line that starts in column 0; [body, last], last the
\* position of the last line consumed
py_BlockBody(source_lines, k) ==
    IF k > Len(source_lines) THEN [body |-> <<>>, last |-> k - 1]
    ELSE LET c == source_lines[k].content IN
         IF ~IsBlank(c) /\ ~(StartsWith(c, " ") \/ StartsWith(c, "\t"))
         THEN [body |-> <<>>, last |-> k - 1]
         ELSE LET r == BlockBody(source_lines, k + 1)
              IN [body |-> <<source_lines[k]>> \o r.body, last |-> r.last]

\* The tables of definitions (parse_namespace_content's `definitions`, the
\* transpiler's active_definitions) are Python dicts, kept here as sequences
\* of [name, normal, debug] in insertion order; a slot of <<>> is None.
EntryIndex(table, name) ==
    IF \E q \in 1..Len(table) : table[q].name = name
    THEN CHOOSE q \in 1..Len(table) : table[q].name = name ELSE 0

\* definitions[d.name][key] = d
py_Register(table, d) ==
    LET t == IF EntryIndex(table, d.name) = 0
             THEN Append(table, [name |-> d.name, normal |-> <<>>, debug |-> <<>>])
             ELSE table
        q == EntryIndex(t, d.name)
    IN IF d.is_debug THEN [t EXCEPT ![q].debug = <<d>>] ELSE [t EXCEPT ![q].normal = <<d>>]

\* the while loop of parse_namespace_content from position k on
py_ParseLoop(source_lines, k, definitions, raw_sl_lines) ==
    IF k > Len(source_lines)
    THEN [definitions |-> definitions, raw_sl_lines |-> raw_sl_lines]
    ELSE LET sl == source_lines[k]
             sline == Strip(sl.content)
             mm == match_macro(sline)
             md == match_define(sline)
             m == IF mm.ok THEN mm ELSE md
             inline == Strip(m.inline_body) # ""
             blk == BlockBody(source_lines, k + 1)
             body == IF inline
                     THEN <<SourceLine(m.inline_body \o "\n", sl.filename, sl.lineno)>>
                     ELSE blk.body
             d == Definition(m.name_part, m.args_str, body, mm.ok, m.is_debug)
         IN IF mm.ok \/ md.ok
            THEN ParseLoop(source_lines, IF inline THEN k + 1 ELSE blk.last + 1,
                           Register(definitions, d), raw_sl_lines)
            ELSE ParseLoop(source_lines, k + 1, definitions, Append(raw_sl_lines, sl))

py_parse_namespace_content(source_lines) ==
    ParseLoop(dedent_block(source_lines), 1, <<>>, <<>>)

\* the merge loops of transpile: every parsed entry is copied into
\* active_definitions, a slot that is None leaving the active one as it is
py_MergeDefinitions(active, defs) ==
    IF defs = <<>> THEN active
    ELSE LET d == Head(defs)
             a == IF EntryIndex(active, d.name) = 0
                  THEN Append(active, [name |-> d.name, normal |-> <<>>, debug |-> <<>>])
                  ELSE active
             q == EntryIndex(a, d.name)
             b == IF d.normal # <<>> THEN [a EXCEPT ![q].normal = d.normal] ELSE a
             c == IF d.debug # <<>> THEN [b EXCEPT ![q].debug = d.debug] ELSE b
         IN MergeDefinitions(c, Tail(defs))

-----------------------------------------------------------------------------
(* get_active_definition *)

\* a lookup that prefers the normal variant in both modes
get_active_definition_normal_first(active, exec, name) ==
    LET q == EntryIndex(active, name)
    IN IF q = 0 THEN <<>>
       ELSE IF active[q].normal # <<>> THEN active[q].normal
       ELSE active[q].debug

\* get_active_definition(name) in the table `active` and mode `exec`:
\* <<>> is None, <<d>> a definition
py_get_active_definition(active, exec, name) ==
    LET q == EntryIndex(active, name)
        normal_def == active[q].normal
        debug_def == active[q].debug
    IN IF q = 0 THEN <<>>
       ELSE IF exec THEN (IF debug_def # <<>> THEN debug_def ELSE normal_def)
       ELSE IF normal_def # <<>> THEN normal_def
       ELSE IF debug_def # <<>>
            THEN <<[Definition(name, "", <<>>, debug_def[1].is_macro, FALSE)
                      EXCEPT !.is_deleted = TRUE]>>
       ELSE <<>>

-----------------------------------------------------------------------------
(* expand_body *)

\* zip(placeholder_vars, inner_vals) written into the bindings
RECURSIVE BindZip(_, _, _)
BindZip(m, names, values) ==
    IF names = <<>> \/ values = <<>> THEN m
    ELSE BindZip(SetKey(m, Scalar(Head(names), Head(values))), Tail(names), Tail(values))

\* the bindings of the receiver (caller_obj = "" stands for None)
py_BindReceiver(definition, caller_obj) ==
    LET val == Strip(caller_obj)
        wrapped == StartsWith(val, "(") /\ EndsWith(val, ")")
        inner == Sub(val, 2, Len(val) - 1)
    IN IF caller_obj = "" THEN <<>>
       ELSE IF definition.placeholder_is_variadic /\ definition.placeholder # ""
       THEN <<ListVal(definition.placeholder,
                      smart_split_args(IF wrapped THEN inner ELSE val))>>
       ELSE IF definition.placeholder_vars # <<>>
       THEN (IF wrapped
             THEN BindZip(<<>>, definition.placeholder_vars, smart_split_args(inner))
             ELSE <<>>)
       ELSE IF definition.placeholder # ""
       THEN <<Scalar(definition.placeholder, caller_obj)>>
       ELSE <<>>

\* the loop over definition.params: positional arguments left to right, a
\* variadic parameter takes what is left and ends the loop
py_BindParams(m, params, call_args, used_args_count) ==
    IF params = <<>> THEN m
    ELSE LET param == Head(params) IN
         IF param.is_variadic
         THEN SetKey(m, ListVal(param.name,
                                IF used_args_count < Len(call_args)
                                THEN Sub(call_args, used_args_count + 1, Len(call_args))
                                ELSE <<>>))
         ELSE IF used_args_count < Len(call_args)
         THEN BindParams(SetKey(m, Scalar(param.name, call_args[used_args_count + 1])),
                         Tail(params), call_args, used_args_count + 1)
         ELSE BindParams(SetKey(m, Scalar(param.name,
                                          IF param.default # <<>> THEN param.default[1]
                                          ELSE "None")),
                         Tail(params), call_args, used_args_count)

\* the rewriting of the processed body lines: process_macro_ops, then
\* safe_replace, line by line; [err, lines]
py_RewriteLines(lines, replacements) ==
    IF lines = <<>> THEN [err |-> <<>>, lines |-> <<>>]
    ELSE LET sl == Head(lines)
             r == process_macro_ops(sl.content, replacements)
             rest == RewriteLines(Tail(lines), replacements)
         IN IF r.err # <<>> THEN [err |-> r.err, lines |-> <<>>]
            ELSE [err |-> rest.err,
                  lines |-> <<SourceLine(safe_replace(r.text, replacements),
                                         sl.filename, sl.lineno)>> \o rest.lines]

\* the erasure of a tombstoned call: the text with every occurrence of
\* match_str removed, dropped when nothing is left
py_Erase(original_sl, match_str) ==
    LET new_content == Replace(original_sl.content, match_str, "") IN
    IF IsBlank(new_content) THEN <<>>
    ELSE <<SourceLine(new_content, original_sl.filename, original_sl.lineno)>>

\* the last step of expand_body: the lines that replace original_sl, given
\* the rewritten body final_lines
py_PlaceBody(final_lines, original_sl, match_str) ==
    LET base_indent == LeadingSpace(original_sl.content)
        valid_lines == SelectSeq(final_lines, LAMBDA l : ~IsBlank(l.content))
        is_whole_line == Strip(original_sl.content) = match_str
        dedented_lines == dedent_block(final_lines)
    IN IF ~is_whole_line /\ Len(valid_lines) = 1
       THEN <<SourceLine(Replace(original_sl.content, match_str, Strip(valid_lines[1].content)),
                         original_sl.filename, original_sl.lineno)>>
       ELSE IF ~is_whole_line /\ Len(valid_lines) = 0
       THEN Erase(original_sl, match_str)
       ELSE [k \in 1..Len(dedented_lines) |->
                SourceLine(base_indent \o RStripNL(dedented_lines[k].content) \o "\n",
                           dedented_lines[k].filename, dedented_lines[k].lineno)]

\* expand_body(definition, call_args, original_sl, match_str, caller_obj):
\* [err, lines]
py_expand_body(definition, call_args, original_sl, match_str, caller_obj) ==
    IF definition.is_deleted
    THEN [err |-> <<>>, lines |-> Erase(original_sl, match_str)]
    ELSE LET replacements == BindParams(BindReceiver(definition, caller_obj),
                                        definition.params, call_args, 0)
             processed == process_conditionals(definition.body_lines, replacements)
             final == RewriteLines(processed.lines, replacements)
         IN IF processed.err # <<>> THEN [err |-> processed.err, lines |-> <<>>]
            ELSE IF final.err # <<>> THEN [err |-> final.err, lines |-> <<>>]
            ELSE [err |-> <<>>, lines |-> PlaceBody(final.lines, original_sl, match_str)]

-----------------------------------------------------------------------------
(* process_line_expansion *)

\* re.finditer(r'\b' + name + r'\b', text): the match positions from p on
py_DefineMatches(text, name, p) ==
    IF p > Len(text) - Len(name) + 1 THEN <<>>
    ELSE IF At(text, name, p) /\ WordBoundary(text, p) /\ WordBoundary(text, p + Len(name))
         THEN <<p>> \o DefineMatches(text, name, p + Len(name))
         ELSE DefineMatches(text, name, p + 1)

\* re.finditer(r'(?<!\.)\b' + name + r'\s*\(', text): [start, end] of each
\* match from p on, end the position after the "("
py_MacroMatches(text, name, p) ==
    IF p > Len(text) - Len(name) + 1 THEN <<>>
    ELSE LET o == SkipSpace(text, p + Len(name)) IN
         IF /\ At(text, name, p) /\ WordBoundary(text, p)
            /\ Ch(text, p - 1) # "." /\ Ch(text, o) = "("
         THEN <<[start |-> p, end |-> o + 1, caller_obj |-> ""]>>
                  \o MacroMatches(text, name, o + 1)
         ELSE MacroMatches(text, name, p + 1)

\* (?:\[[^\]]*\])* from position e: the position after the last index group
py_SkipIndexGroups(text, e) ==
    IF Ch(text, e) = "[" /\ Find(text, "]", e + 1) # 0
    THEN SkipIndexGroups(text, Find(text, "]", e + 1) + 1)
    ELSE e

\* the receiver ((?:\([^)]*\)|[a-zA-Z0-9_]+(?:\[[^\]]*\])*)) at position p:
\* the position after it, 0 when there is none
py_ReceiverEnd(text, p) ==
    IF Ch(text, p) = "(" THEN
        (IF Find(text, ")", p + 1) # 0 THEN Find(text, ")", p + 1) + 1 ELSE 0)
    ELSE IF IsWord(Ch(text, p)) THEN SkipIndexGroups(text, SkipWord(text, p))
    ELSE 0

\* re.finditer(obj_pattern + r'\.' + name + r'\s*\(', text) from p on
py_MethodMatches(text, name, p) ==
    IF p > Len(text) THEN <<>>
    ELSE LET r == ReceiverEnd(text, p)
             o == SkipSpace(text, r + 1 + Len(name))
         IN IF r # 0 /\ Ch(text, r) = "." /\ At(text, name, r + 1) /\ Ch(text, o) = "("
            THEN <<[start |-> p, end |-> o + 1, caller_obj |-> Sub(text, p, r - 1)]>>
                     \o MethodMatches(text, name, o + 1)
            ELSE MethodMatches(text, name, p + 1)

\* the scan for the closing parenthesis of a call, from position k: the
\* position of the ")" that brings depth to 0, or 0 when the line ends first
py_CloseParen(text, k, depth, in_quote, quote_char, escape) ==
    IF k > Len(text) THEN 0
    ELSE LET c == Ch(text, k) IN
         IF escape THEN CloseParen(text, k + 1, depth, in_quote, quote_char, FALSE)
         ELSE IF c = "\\" THEN CloseParen(text, k + 1, depth, in_quote, quote_char, TRUE)
         ELSE IF in_quote THEN
             CloseParen(text, k + 1, depth, c # quote_char, quote_char, FALSE)
         ELSE IF c \in {"\"", "'"} THEN CloseParen(text, k + 1, depth, TRUE, c, FALSE)
         ELSE IF c = "(" THEN CloseParen(text, k + 1, depth + 1, FALSE, quote_char, FALSE)
         ELSE IF c = ")" THEN
             (IF depth = 1 THEN k
              ELSE CloseParen(text, k + 1, depth - 1, FALSE, quote_char, FALSE))
         ELSE CloseParen(text, k + 1, depth, FALSE, quote_char, FALSE)

\* the index-safe matches of a define, in order
py_SafeDefineMatches(text, name) ==
    SelectSeq(DefineMatches(text, name, 1), LAMBDA p : is_index_safe(text, p))

\* the index-safe matches of a macro or method whose call is closed on the line
py_SafeCallMatches(text, matches) ==
    SelectSeq(matches, LAMBDA m : /\ is_index_safe(text, m.start)
                                  /\ CloseParen(text, m.end, 1, FALSE, "", FALSE) # 0)

IsMethod(definition) ==
    \/ definition.placeholder # ""
    \/ definition.placeholder_vars # <<>>
    \/ definition.placeholder_is_variadic

\* the arguments of a call: [try_eval_math(a) for a in smart_split_args(args_str)]
py_CallArgs(args_str) ==
    LET raw_call_args == smart_split_args(args_str)
    IN [k \in 1..Len(raw_call_args) |-> try_eval_math(raw_call_args[k])]

\* what process_line_expansion does with one name of active_definitions:
\* [expanded, err, lines]
py_ExpandName(active, exec, sl, name) ==
    LET line_content == sl.content
        got == get_active_definition(active, exec, name)
        definition == got[1]
        none == [expanded |-> FALSE, err |-> <<>>, lines |-> <<sl>>]
        done(r) == [expanded |-> TRUE, err |-> r.err, lines |-> r.lines]
    IN IF got = <<>> THEN none
       ELSE IF ~definition.is_macro THEN
           (IF SafeDefineMatches(line_content, name) # <<>>
            THEN done(expand_body(definition, <<>>, sl, name, ""))
            ELSE none)
       ELSE
           LET ms == SafeCallMatches(line_content,
                         IF IsMethod(definition) THEN MethodMatches(line_content, name, 1)
                         ELSE MacroMatches(line_content, name, 1))
               m == ms[1]
               end_idx == CloseParen(line_content, m.end, 1, FALSE, "", FALSE)
               full_match == Sub(line_content, m.start, end_idx)
               args_str == Sub(line_content, m.end, end_idx - 1)
           IN IF ms = <<>> THEN none
              ELSE IF definition.is_deleted
              THEN [expanded |-> TRUE, err |-> <<>>, lines |-> Erase(sl, full_match)]
              ELSE done(expand_body(definition, CallArgs(args_str), sl, full_match,
                                    m.caller_obj))

\* the loop of process_line_expansion over the names from position q on
py_ExpandFrom(active, exec, sl, q) ==
    IF q > Len(active) THEN [expanded |-> FALSE, err |-> <<>>, lines |-> <<sl>>]
    ELSE LET r == ExpandName(active, exec, sl, active[q].name) IN
         IF r.expanded THEN r ELSE ExpandFrom(active, exec, sl, q + 1)

\* process_line_expansion(sl): [expanded, err, lines]; a non-empty err is the
\* message of the exception raised on the way
py_process_line_expansion(active, exec, sl) == ExpandFrom(active, exec, sl, 1)

-----------------------------------------------------------------------------
(* split_comment, process_mod_ops *)

\* split_comment(text): the position of the first "#" outside a string
\* literal (0 when there is none)
py_CommentScan(text, k, in_sq, in_dq, escape) ==
    IF k > Len(text) THEN 0
    ELSE LET c == Ch(text, k) IN
         IF c = "#" /\ ~in_sq /\ ~in_dq THEN k
         ELSE IF escape THEN CommentScan(text, k + 1, in_sq, in_dq, FALSE)
         ELSE IF c = "\\" THEN CommentScan(text, k + 1, in_sq, in_dq, TRUE)
         ELSE IF c = "'" /\ ~in_dq THEN CommentScan(text, k + 1, ~in_sq, in_dq, FALSE)
         ELSE IF c = "\"" /\ ~in_sq THEN CommentScan(text, k + 1, in_sq, ~in_dq, FALSE)
         ELSE CommentScan(text, k + 1, in_sq, in_dq, FALSE)

py_split_comment(text) ==
    LET k == CommentScan(text, 1, FALSE, FALSE, FALSE) IN
    IF k = 0 THEN [code |-> text, comment |-> ""]
    ELSE [code |-> Sub(text, 1, k - 1), comment |-> From(text, k)]

\* whether "%OP=" with something after it stands at position q of body
ModOpAt(body, q) ==
    /\ Ch(body, q) = "%" /\ Ch(body, q + 1) \in {"+", "-", "*", "/"}
    /\ Ch(body, q + 2) = "=" /\ q + 3 <= Len(body)

\* the least position >= lo at which ModOpAt holds (0 if none)
RECURSIVE ModOpFrom(_, _)
ModOpFrom(body, lo) ==
    IF lo > Len(body) THEN 0
    ELSE IF ModOpAt(body, lo) THEN lo
    ELSE ModOpFrom(body, lo + 1)

\* the rewritten code, given the groups of the match
ModCode(indent, lhs, op, rhs, mod_expr) ==
    IF op = "/"
    THEN indent \o lhs \o "=(" \o lhs \o "*pow(" \o rhs \o "," \o mod_expr \o "-2,"
             \o mod_expr \o "))%" \o mod_expr
    ELSE indent \o lhs \o "=(" \o lhs \o op \o "(" \o rhs \o "))%" \o mod_expr

\* the rewritten line, given the operator's position q and the indent's length
ModLine(body, comment, q, indent_len, mod_expr) ==
    LET new_code == ModCode(Sub(body, 1, indent_len), Strip(Sub(body, indent_len + 1, q - 1)),
                            Ch(body, q + 1), Strip(From(body, q + 3)), mod_expr)
    IN RStrip(IF comment # "" THEN new_code \o " " \o comment ELSE new_code) \o "\n"

\* re.match(r'^(\s*)(.+?)\s*%([+\-*/])=\s*(.+)$', code_part) on the code
\* part `body` without its line end: the indent takes all the leading white
\* space and the left side ends at the first "%OP=" that leaves it a
\* character; when there is none, the indent gives its last character up to
\* an operator that follows it directly
ModMatch(text, body, comment, lead, q, mod_expr) ==
    IF Contains(body, "\n") THEN text
    ELSE IF q # 0 THEN ModLine(body, comment, q, lead, mod_expr)
    ELSE IF lead >= 1 /\ ModOpAt(body, lead + 1)
    THEN ModLine(body, comment, lead + 1, lead - 1, mod_expr)
    ELSE text

ModBody(text, body, comment, mod_expr) ==
    ModMatch(text, body, comment, SkipSpace(body, 1) - 1,
             ModOpFrom(body, SkipSpace(body, 1) + 1), mod_expr)

ModParts(text, parts, mod_expr) ==
    ModBody(text, IF EndsWith(parts.code, "\n") THEN Sub(parts.code, 1, Len(parts.code) - 1)
                  ELSE parts.code, parts.comment, mod_expr)

\* process_mod_ops(text, mod_value); mod is <<>> (None) or <<M>>
py_process_mod_ops(text, mod) ==
    IF mod = <<>> \/ mod[1] = "" THEN text
    ELSE ModParts(text, split_comment(text), "(" \o mod[1] \o ")")

-----------------------------------------------------------------------------
(* detect_recursion *)

\* re.match(r'^(async\s+)?def\s+([a-zA-Z_]\w*)', stripped): the function
\* name, "" when the line is no def
py_DefName(stripped) ==
    LET a == IF StartsWith(stripped, "async") /\ SkipSpace(stripped, 6) > 6
             THEN SkipSpace(stripped, 6) ELSE 1
        at(d) == LET n0 == SkipSpace(stripped, d + 3) IN
                 IF At(stripped, "def", d) /\ n0 > d + 3 /\ IsIdentStart(Ch(stripped, n0))
                 THEN Sub(stripped, n0, SkipWord(stripped, n0) - 1) ELSE ""
    IN IF at(a) # "" THEN at(a) ELSE at(1)

\* re.finditer(r'\b' + name + r'\s*\(', text): the match positions from p on
py_CallMatches(text, name, p) ==
    IF p > Len(text) - Len(name) + 1 THEN <<>>
    ELSE LET o == SkipSpace(text, p + Len(name)) IN
         IF At(text, name, p) /\ WordBoundary(text, p) /\ Ch(text, o) = "("
         THEN <<p>> \o CallMatches(text, name, o + 1)
         ELSE CallMatches(text, name, p + 1)

\* while scope_stack and indent <= scope_stack[-1][1]: scope_stack.pop()
RECURSIVE PopScopes(_, _)
PopScopes(scope_stack, indent) ==
    IF scope_stack # <<>> /\ indent <= scope_stack[Len(scope_stack)].indent
    THEN PopScopes(Sub(scope_stack, 1, Len(scope_stack) - 1), indent)
    ELSE scope_stack

py_RecursionScan(source_lines, k, scope_stack) ==
    IF k > Len(source_lines) THEN FALSE
    ELSE LET text == source_lines[k].content
             stripped == Strip(text)
             scopes == PopScopes(scope_stack, get_indent_length(text))
             func_name == DefName(stripped)
         IN IF stripped = "" \/ StartsWith(stripped, "#")
            THEN RecursionScan(source_lines, k + 1, scope_stack)
            ELSE IF func_name # ""
            THEN RecursionScan(source_lines, k + 1,
                     Append(scopes, [name |-> func_name, indent |-> get_indent_length(text)]))
            ELSE IF scopes # <<>>
                    /\ SelectSeq(CallMatches(text, scopes[Len(scopes)].name, 1),
                                 LAMBDA p : is_index_safe(text, p)) # <<>>
            THEN TRUE
            ELSE RecursionScan(source_lines, k + 1, scopes)

py_detect_recursion(source_lines) == RecursionScan(source_lines, 1, <<>>)

-----------------------------------------------------------------------------
(* load_file, expand_files *)

\* str.split(None, n): at most n splits on white space
py_SplitWSMax(s, n) ==
    LET a == SkipSpace(s, 1) IN
    IF a > Len(s) THEN <<>>
    ELSE IF n = 0 THEN <<From(s, a)>>
    ELSE LET b == CHOOSE e \in a..(Len(s) + 1) :
                      /\ \A q \in a..(e - 1) : ~IsSpace(Ch(s, q))
                      /\ (e = Len(s) + 1 \/ IsSpace(Ch(s, e)))
         IN <<Sub(s, a, b - 1)>> \o SplitWSMax(From(s, b), n - 1)

\* The files of a run live in one directory and are named by their file
\* names, so os.path.abspath(filepath), os.path.basename(abs_path) and
\* os.path.join(base_dir, target_rel) all name a file by that name.
\* load_file(filepath) on the disk `files`; called for existing files only
\* (expand_files tests the None that a missing file gives)
load_file(files, filepath) ==
    [k \in 1..Len(files[filepath]) |-> SourceLine(files[filepath][k], filepath, k)]

\* a line of the loop of expand_files: is it a `$expand`, and its target
\* (<<>> when split(None, 1)[1] raises IndexError)
IsExpand(sl) == StartsWith(Strip(sl.content), "$expand")

SplitTarget[sline \in STRING] ==
    LET Rest[rest \in Nat] ==
            IF rest <= Len(sline) THEN <<Strip(From(sline, rest))>> ELSE <<>>
    IN Rest[SkipSpace(sline, SkipNonSpace(sline, 1))]

ExpandTarget(sl) == SplitTarget[Strip(sl.content)]

\* an extend that loses the lines it is given
extend_nothing(expanded_lines, more) == expanded_lines

\* expanded_lines.extend(...)
extend(expanded_lines, more) == expanded_lines \o more

\* expand_files(filepath, visited) as the recursive function it is:
\* [lines, visited]
py_expand_files(files, filepath, seen) ==
    IF filepath \in seen THEN [lines |-> <<>>, visited |-> seen]
    ELSE IF filepath \notin DOMAIN files
    THEN [lines |-> <<>>, visited |-> seen \cup {filepath}]
    ELSE ExpandLoop(files, load_file(files, filepath), 1, <<>>, seen \cup {filepath})

py_ExpandLoop(files, raw_sl_lines, k, expanded_lines, seen) ==
    IF k > Len(raw_sl_lines) THEN [lines |-> expanded_lines, visited |-> seen]
    ELSE LET sl == raw_sl_lines[k]
             target == ExpandTarget(sl)
             sub == expand_files(files, target[1], seen)
         IN IF ~IsExpand(sl)
            THEN ExpandLoop(files, raw_sl_lines, k + 1, Append(expanded_lines, sl), seen)
            ELSE IF target = <<>>
            THEN ExpandLoop(files, raw_sl_lines, k + 1, expanded_lines, seen)
            ELSE ExpandLoop(files, raw_sl_lines, k + 1,
                            extend(expanded_lines, sub.lines), sub.visited)

\* The same function step by step.  A frame of the call stack is one
\* activation of expand_files: at "call" it has not passed its first two
\* tests, at "loop" it is in its for loop in front of raw_sl_lines[idx].
CallFrame(filepath) ==
    [path |-> filepath, state |-> "call", raw_sl_lines |-> <<>>, idx |-> 1,
     expanded_lines |-> <<>>]

Top == stack[Len(stack)]

\* the return of the innermost activation with `result`: the caller extends
\* its expanded_lines and moves to its next line; the outermost activation
\* returns to transpile
Return(result) ==
    LET rest == Sub(stack, 1, Len(stack) - 1)
        caller == rest[Len(rest)]
    IN IF rest = <<>>
       THEN /\ stack' = <<>>
            /\ all_lines' = result
            /\ pc' = "prepare"
       ELSE /\ stack' = [rest EXCEPT ![Len(rest)] =
                            [caller EXCEPT !.expanded_lines = extend(@, result),
                                           !.idx = @ + 1]]
            /\ UNCHANGED <<all_lines, pc>>

EFUnchanged ==
    UNCHANGED <<fs, main_file, is_exec_mode, no_header, no_original, namespaces,
                active_definitions, mod_value, raw_code_lines, i, expansion_counter,
                cases_indent_level, final_sl_lines, error, final_output_lines,
                line_mapping>>

\* the `$expand` line the innermost activation was called from (<<>> for the
\* outermost activation)
CallSite ==
    IF Len(stack) = 1 THEN <<>>
    ELSE <<stack[Len(stack) - 1].raw_sl_lines[stack[Len(stack) - 1].idx]>>

\* if abs_path in visited: return []
EF_AlreadyVisited ==
    /\ pc = "expand_files" /\ stack # <<>> /\ Top.state = "call"
    /\ Top.path \in visited
    /\ Return(<<>>)
    /\ hist' = [hist EXCEPT !.last = "EF_AlreadyVisited", !.revisits = @ + 1]
    /\ UNCHANGED visited
    /\ EFUnchanged

\* visited.add(abs_path); if raw_sl_lines is None: return []
EF_MissingFile ==
    /\ pc = "expand_files" /\ stack # <<>> /\ Top.state = "call"
    /\ Top.path \notin visited
    /\ Top.path \notin DOMAIN fs
    /\ visited' = visited \cup {Top.path}
    /\ Return(<<>>)
    /\ hist' = [hist EXCEPT !.last = "EF_MissingFile", !.missing = @ + 1]
    /\ EFUnchanged

\* visited.add(abs_path); raw_sl_lines = self.load_file(filepath)
EF_Load ==
    /\ pc = "expand_files" /\ stack # <<>> /\ Top.state = "call"
    /\ Top.path \notin visited
    /\ Top.path \in DOMAIN fs
    /\ visited' = visited \cup {Top.path}
    /\ stack' = [stack EXCEPT ![Len(stack)] =
                    [Top EXCEPT !.state = "loop",
                                !.raw_sl_lines = load_file(fs, Top.path)]]
    /\ hist' = [hist EXCEPT !.last = "EF_Load",
                            !.loads = Append(@, [path |-> Top.path, at |-> CallSite])]
    /\ UNCHANGED <<all_lines, pc>>
    /\ EFUnchanged

InLoop ==
    /\ pc = "expand_files" /\ stack # <<>> /\ Top.state = "loop"
    /\ Top.idx <= Len(Top.raw_sl_lines)

\* expanded_lines.extend(self.expand_files(target_full, visited)): the call
EF_Expand ==
    /\ InLoop
    /\ IsExpand(Top.raw_sl_lines[Top.idx])
    /\ \E target \in {ExpandTarget(Top.raw_sl_lines[Top.idx])} :
          /\ target # <<>>
          /\ stack' = Append(stack, CallFrame(target[1]))
    /\ hist' = [hist EXCEPT !.last = "EF_Expand"]
    /\ UNCHANGED <<visited, all_lines, pc>>
    /\ EFUnchanged

\* except IndexError: pass
EF_ExpandNoArg ==
    /\ InLoop
    /\ IsExpand(Top.raw_sl_lines[Top.idx])
    /\ ExpandTarget(Top.raw_sl_lines[Top.idx]) = <<>>
    /\ stack' = [stack EXCEPT ![Len(stack)].idx = @ + 1]
    /\ hist' = [hist EXCEPT !.last = "EF_ExpandNoArg", !.noarg = @ + 1]
    /\ UNCHANGED <<visited, all_lines, pc>>
    /\ EFUnchanged

\* expanded_lines.append(sl)
EF_Line ==
    /\ InLoop
    /\ ~IsExpand(Top.raw_sl_lines[Top.idx])
    /\ stack' = [stack EXCEPT ![Len(stack)] =
                    [Top EXCEPT !.expanded_lines = Append(@, Top.raw_sl_lines[Top.idx]),
                                !.idx = @ + 1]]
    /\ hist' = [hist EXCEPT !.last = "EF_Line"]
    /\ UNCHANGED <<visited, all_lines, pc>>
    /\ EFUnchanged

\* return expanded_lines
EF_Return ==
    /\ pc = "expand_files" /\ stack # <<>> /\ Top.state = "loop"
    /\ Top.idx > Len(Top.raw_sl_lines)
    /\ Return(Top.expanded_lines)
    /\ hist' = [hist EXCEPT !.last = "EF_Return"]
    /\ UNCHANGED visited
    /\ EFUnchanged

-----------------------------------------------------------------------------
(* extract_namespaces *)

\* self.namespaces is a dict from a namespace's name to its lines, kept
\* here as a function; NsExtend is `if ns not in self.namespaces:
\* self.namespaces[ns] = []` followed by the extend / append
NsExtend(ns, name, lines) ==
    [n \in DOMAIN ns \cup {name} |->
        IF n = name THEN (IF name \in DOMAIN ns THEN ns[name] ELSE <<>>) \o lines
        ELSE ns[n]]

\* the loop of extract_namespaces from position k on; current_ns = "" is
\* None: [main_lines, namespaces]
py_ExtractLoop(source_lines, k, main_lines, current_ns, buffer, ns) ==
    IF k > Len(source_lines) THEN [main_lines |-> main_lines, namespaces |-> ns]
    ELSE LET sl == source_lines[k]
             sline == Strip(sl.content)
             parts == SplitWS(sline)
             parts2 == SplitWSMax(sline, 2)
         IN IF StartsWith(sline, "$namespace")
            THEN ExtractLoop(source_lines, k + 1, main_lines,
                             IF Len(parts) > 1 THEN parts[2] ELSE "unknown", <<>>, ns)
            ELSE IF sline = "$" /\ current_ns # ""
            THEN ExtractLoop(source_lines, k + 1, main_lines, "", <<>>,
                             NsExtend(ns, current_ns, buffer))
            ELSE IF StartsWith(sline, "$name")
            THEN ExtractLoop(source_lines, k + 1, main_lines, current_ns, buffer,
                     IF Len(parts2) >= 3
                     THEN NsExtend(ns, Strip(parts2[2]),
                              <<SourceLine(Strip(parts2[3]) \o "\n", sl.filename, sl.lineno)>>)
                     ELSE ns)
            ELSE IF current_ns # ""
            THEN ExtractLoop(source_lines, k + 1, main_lines, current_ns,
                             Append(buffer, sl), ns)
            ELSE ExtractLoop(source_lines, k + 1, Append(main_lines, sl), current_ns,
                             buffer, ns)

\* extract_namespaces(source_lines) on a transpiler whose namespaces are ns
py_extract_namespaces(source_lines, ns) == ExtractLoop(source_lines, 1, <<>>, "", <<>>, ns)

-----------------------------------------------------------------------------
(* transpile: the statements in front of the while loop *)

EmptyNamespaces == [n \in {} |-> <<>>]

\* the driver's state: the locals of transpile and the two fields of the
\* transpiler its loop writes; error is <<>> or <<message>>
DriverState(raw, idx, counter, cases, final, active, modv, err) ==
    [raw_code_lines |-> raw, i |-> idx, expansion_counter |-> counter,
     cases_indent_level |-> cases, final_sl_lines |-> final,
     active_definitions |-> active, mod_value |-> modv, error |-> err]

\* lines 671-688: the namespaces and the driver's state at the loop's head
py_Prologue(lines) ==
    LET ex == extract_namespaces(lines, EmptyNamespaces)
        parsed == parse_namespace_content(ex.main_lines)
        active0 == MergeDefinitions(<<>>, parsed.definitions)
        has_default == "default" \in DOMAIN ex.namespaces
        dflt == parse_namespace_content(ex.namespaces["default"])
        active == IF has_default THEN MergeDefinitions(active0, dflt.definitions)
                  ELSE active0
        raw == IF has_default THEN dflt.raw_sl_lines \o parsed.raw_sl_lines
               ELSE parsed.raw_sl_lines
    IN [namespaces |-> ex.namespaces,
        driver |-> DriverState(raw, 0, 0, 0, <<>>, active, <<>>, <<>>)]

-----------------------------------------------------------------------------
(* transpile: the while loop *)

\* the expansion limit (2000 in the source), scaled to a depth the runs reach
MAX_EXPANSION_DEPTH == 3

\* raw_code_lines[a:b] = lines, with a and b Python's 0-based slice bounds
Splice(seq, a, b, lines) == Sub(seq, 1, a) \o lines \o Sub(seq, b + 1, Len(seq))

\* for target_ns in target_ns_list: ... of `$using`, from target k on:
\* [active, all_raw_codes]
py_UsingLoop(target_ns_list, k, ns, active, all_raw_codes) ==
    IF k > Len(target_ns_list) THEN [active |-> active, all_raw_codes |-> all_raw_codes]
    ELSE LET target_ns == Strip(target_ns_list[k])
             parsed == parse_namespace_content(ns[target_ns])
         IN IF target_ns \in DOMAIN ns
            THEN UsingLoop(target_ns_list, k + 1, ns,
                           MergeDefinitions(active, parsed.definitions),
                           all_raw_codes \o parsed.raw_sl_lines)
            ELSE UsingLoop(target_ns_list, k + 1, ns, active, all_raw_codes)

\* re.match(r'^(\s*)\?(.*)$', content): [ok, indent, rest]
py_debug_match(content) ==
    LET lead == SkipSpace(content, 1) - 1
        after == From(content, lead + 2)
        rest == IF EndsWith(after, "\n") THEN Sub(after, 1, Len(after) - 1) ELSE after
    IN [ok |-> Ch(content, lead + 1) = "?" /\ ~Contains(rest, "\n"),
        indent |-> Sub(content, 1, lead), rest |-> rest]

\* the line the lower half of the loop works on: in exec mode a `?` line
\* with its marker removed, otherwise sl itself
py_Stripped(sl, exec) ==
    LET m == debug_match(sl.content)
        new_content == m.indent \o m.rest
    IN IF m.ok /\ exec
       THEN SourceLine(IF EndsWith(new_content, "\n") THEN new_content
                       ELSE new_content \o "\n", sl.filename, sl.lineno)
       ELSE sl

\* the line at the loop's head
Current(d) == d.raw_code_lines[d.i + 1]

\* which way one iteration of the loop goes for the line at its head
py_Decide(d, exec) ==
    LET sl == Current(d)
        sline == Strip(sl.content)
        r == process_line_expansion(d.active_definitions, exec, sl)
    IN IF StartsWith(sline, "$using") THEN "Using"
       ELSE IF StartsWith(sline, "$mod") THEN "Mod"
       ELSE IF r.err # <<>> THEN "ExpandError"
       ELSE IF r.expanded THEN
           (IF d.expansion_counter + 1 > MAX_EXPANSION_DEPTH THEN "InfiniteExpansion"
            ELSE "Expand")
       ELSE IF debug_match(sl.content).ok /\ ~exec THEN "DropDebugLine"
       ELSE IF StartsWith(Strip(Stripped(sl, exec).content), "$cases") THEN "Cases"
       ELSE "Emit"

\* lines 694-711
py_DoUsing(d, ns) ==
    LET parts == SplitWSMax(Strip(Current(d).content), 1)
        u == UsingLoop(SplitOn(parts[2], ","), 1, ns, d.active_definitions, <<>>)
    IN IF Len(parts) > 1
       THEN [d EXCEPT !.active_definitions = u.active,
                      !.raw_code_lines = Splice(@, d.i + 1, d.i + 1, u.all_raw_codes),
                      !.i = @ + 1, !.expansion_counter = 0]
       ELSE [d EXCEPT !.i = @ + 1, !.expansion_counter = 0]

\* lines 713-718
py_DoMod(d) ==
    LET parts == SplitWS(Strip(Current(d).content))
    IN IF Len(parts) > 1
       THEN [d EXCEPT !.mod_value = <<Strip(parts[2])>>, !.i = @ + 1]
       ELSE [d EXCEPT !.i = @ + 1]

\* lines 720-726, the exception of process_line_expansion passed on
py_DoExpandError(d, exec) ==
    [d EXCEPT !.error = process_line_expansion(d.active_definitions, exec, Current(d)).err]

\* lines 722-724
py_DoInfiniteExpansion(d) ==
    [d EXCEPT !.expansion_counter = @ + 1,
              !.error = <<"Infinite macro expansion detected at line "
                            \o IntToStr(Current(d).lineno) \o ": "
                            \o Strip(Current(d).content)>>]

\* lines 720-726
py_DoExpand(d, exec) ==
    LET r == process_line_expansion(d.active_definitions, exec, Current(d))
    IN [d EXCEPT !.expansion_counter = @ + 1,
                 !.raw_code_lines = Splice(@, d.i, d.i + 1, r.lines)]

\* lines 728-735
DoDropDebugLine(d) == [d EXCEPT !.expansion_counter = 0, !.i = @ + 1]

\* lines 728-755
py_DoCases(d, exec) ==
    LET sl == Stripped(Current(d), exec)
        parts == SplitWSMax(Strip(sl.content), 1)
        count_expr == Strip(parts[2])
        loop_txt == LeadingSpace(sl.content) \o Repeat("    ", d.cases_indent_level)
                        \o "for _ in range(" \o count_expr \o "):\n"
    IN IF Len(parts) > 1 /\ count_expr # "1"
       THEN [d EXCEPT !.final_sl_lines = Append(@, SourceLine(loop_txt, sl.filename, sl.lineno)),
                      !.cases_indent_level = @ + 1,
                      !.expansion_counter = 0, !.i = @ + 1]
       ELSE [d EXCEPT !.expansion_counter = 0, !.i = @ + 1]

\* lines 728-768
py_DoEmit(d, exec) ==
    LET sl == Stripped(Current(d), exec)
        sl_to_add == SourceLine(process_mod_ops(sl.content, d.mod_value),
                                sl.filename, sl.lineno)
        indented == SourceLine(Repeat("    ", d.cases_indent_level) \o sl_to_add.content,
                               sl_to_add.filename, sl_to_add.lineno)
    IN [d EXCEPT !.final_sl_lines =
                     Append(@, IF d.cases_indent_level > 0 /\ Strip(sl_to_add.content) # ""
                               THEN indented ELSE sl_to_add),
                 !.expansion_counter = 0, !.i = @ + 1]

\* one iteration of the loop
py_DriverStep(d, ns, exec) ==
    LET way == Decide(d, exec)
    IN CASE way = "Using" -> DoUsing(d, ns)
         [] way = "Mod" -> DoMod(d)
         [] way = "ExpandError" -> DoExpandError(d, exec)
         [] way = "InfiniteExpansion" -> DoInfiniteExpansion(d)
         [] way = "Expand" -> DoExpand(d, exec)
         [] way = "DropDebugLine" -> DoDropDebugLine(d)
         [] way = "Cases" -> DoCases(d, exec)
         [] OTHER -> DoEmit(d, exec)

\* the way an iteration goes and the state it leaves
py_Iterate(d, ns, exec) == [way |-> Decide(d, exec), next |-> DriverStep(d, ns, exec)]

\* while i < len(raw_code_lines), left by an exception
Running(d) == d.error = <<>> /\ d.i < Len(d.raw_code_lines)

\* the loop run to its end
py_RunDriver(d, ns, exec) ==
    IF Running(d) THEN RunDriver(DriverStep(d, ns, exec), ns, exec) ELSE d

\* transpile(main_file) on the disk `files`: the driver's last state
py_transpile(files, filepath, exec) ==
    LET p == Prologue(expand_files(files, filepath, {}).lines)
    IN RunDriver(p.driver, p.namespaces, exec)

-----------------------------------------------------------------------------
\* the call of the function named f with the arguments x
Call(f, x) ==
    CASE f = "Replace" -> py_Replace(x[1], x[2], x[3])
      [] f = "SplitWS" -> py_SplitWS(x[1])
      [] f = "SplitWS1" -> py_SplitWS1(x[1])
      [] f = "WordBoundary" -> py_WordBoundary(x[1], x[2])
      [] f = "IndexSafeScan" -> py_IndexSafeScan(x[1], x[2], x[3], x[4], x[5], x[6])
      [] f = "is_index_safe" -> py_is_index_safe(x[1], x[2])
      [] f = "IntToStr" -> py_IntToStr(x[1])
      [] f = "DigitsVal" -> py_DigitsVal(x[1])
      [] f = "SplitArgsScan" -> py_SplitArgsScan(x[1], x[2], x[3])
      [] f = "smart_split_args" -> py_smart_split_args(x[1])
      [] f = "SubWord" -> py_SubWord(x[1], x[2], x[3], x[4])
      [] f = "safe_replace" -> py_safe_replace(x[1], x[2])
      [] f = "FirstValid" -> py_FirstValid(x[1])
      [] f = "dedent_block" -> py_dedent_block(x[1])
      [] f = "ParseAtom" -> py_ParseAtom(x[1], x[2])
      [] f = "ParseFactor" -> py_ParseFactor(x[1], x[2])
      [] f = "ParseTermRest" -> py_ParseTermRest(x[1], x[2], x[3])
      [] f = "ParseTerm" -> py_ParseTerm(x[1], x[2])
      [] f = "ParseExprRest" -> py_ParseExprRest(x[1], x[2], x[3])
      [] f = "ParseExpr" -> py_ParseExpr(x[1], x[2])
      [] f = "EvalArith" -> py_EvalArith(x[1])
      [] f = "IsMathText" -> py_IsMathText(x[1])
      [] f = "OutsideArith" -> py_OutsideArith(x[1])
      [] f = "try_eval_math" -> py_try_eval_math(x[1])
      [] f = "SplitOn" -> py_SplitOn(x[1], x[2])
      [] f = "PyInt" -> py_PyInt(x[1])
      [] f = "SubLen" -> py_SubLen(x[1], x[2], x[3])
      [] f = "PySlice" -> py_PySlice(x[1], x[2], x[3], x[4])
      [] f = "sub_accessor" -> py_sub_accessor(x[1], x[2], x[3], x[4])
      [] f = "SubAccessor" -> py_SubAccessor(x[1], x[2], x[3])
      [] f = "process_macro_ops" -> py_process_macro_ops(x[1], x[2])
      [] f = "IsIdentifier" -> py_IsIdentifier(x[1])
      [] f = "Operand" -> py_Operand(x[1])
      [] f = "CmpOp" -> py_CmpOp(x[1])
      [] f = "evaluate_condition" -> py_evaluate_condition(x[1])
      [] f = "MatchCond" -> py_MatchCond(x[1], x[2])
      [] f = "MatchElse" -> py_MatchElse(x[1])
      [] f = "extract_block" -> py_extract_block(x[1], x[2], x[3])
      [] f = "BranchBlock" -> py_BranchBlock(x[1], x[2], x[3])
      [] f = "CondText" -> py_CondText(x[1], x[2])
      [] f = "ChainRest" -> py_ChainRest(x[1], x[2], x[3], x[4], x[5])
      [] f = "CondFrom" -> py_CondFrom(x[1], x[2], x[3])
      [] f = "process_conditionals" -> py_process_conditionals(x[1], x[2])
      [] f = "ParseParams" -> py_ParseParams(x[1])
      [] f = "StripTrailingBlank" -> py_StripTrailingBlank(x[1])
      [] f = "Definition" -> py_Definition(x[1], x[2], x[3], x[4], x[5])
      [] f = "AfterDebug" -> py_AfterDebug(x[1])
      [] f = "DefineAt" -> py_DefineAt(x[1], x[2])
      [] f = "match_define" -> py_match_define(x[1])
      [] f = "MacroAt" -> py_MacroAt(x[1], x[2])
      [] f = "match_macro" -> py_match_macro(x[1])
      [] f = "BlockBody" -> py_BlockBody(x[1], x[2])
      [] f = "Register" -> py_Register(x[1], x[2])
      [] f = "ParseLoop" -> py_ParseLoop(x[1], x[2], x[3], x[4])
      [] f = "parse_namespace_content" -> py_parse_namespace_content(x[1])
      [] f = "MergeDefinitions" -> py_MergeDefinitions(x[1], x[2])
      [] f = "get_active_definition" -> py_get_active_definition(x[1], x[2], x[3])
      [] f = "BindReceiver" -> py_BindReceiver(x[1], x[2])
      [] f = "BindParams" -> py_BindParams(x[1], x[2], x[3], x[4])
      [] f = "RewriteLines" -> py_RewriteLines(x[1], x[2])
      [] f = "Erase" -> py_Erase(x[1], x[2])
      [] f = "PlaceBody" -> py_PlaceBody(x[1], x[2], x[3])
      [] f = "expand_body" -> py_expand_body(x[1], x[2], x[3], x[4], x[5])
      [] f = "DefineMatches" -> py_DefineMatches(x[1], x[2], x[3])
      [] f = "MacroMatches" -> py_MacroMatches(x[1], x[2], x[3])
      [] f = "SkipIndexGroups" -> py_SkipIndexGroups(x[1], x[2])
      [] f = "ReceiverEnd" -> py_ReceiverEnd(x[1], x[2])
      [] f = "MethodMatches" -> py_MethodMatches(x[1], x[2], x[3])
      [] f = "CloseParen" -> py_CloseParen(x[1], x[2], x[3], x[4], x[5], x[6])
      [] f = "SafeDefineMatches" -> py_SafeDefineMatches(x[1], x[2])
      [] f = "SafeCallMatches" -> py_SafeCallMatches(x[1], x[2])
      [] f = "CallArgs" -> py_CallArgs(x[1])
      [] f = "ExpandName" -> py_ExpandName(x[1], x[2], x[3], x[4])
      [] f = "ExpandFrom" -> py_ExpandFrom(x[1], x[2], x[3], x[4])
      [] f = "process_line_expansion" -> py_process_line_expansion(x[1], x[2], x[3])
      [] f = "CommentScan" -> py_CommentScan(x[1], x[2], x[3], x[4], x[5])
      [] f = "split_comment" -> py_split_comment(x[1])
      [] f = "process_mod_ops" -> py_process_mod_ops(x[1], x[2])
      [] f = "DefName" -> py_DefName(x[1])
      [] f = "CallMatches" -> py_CallMatches(x[1], x[2], x[3])
      [] f = "RecursionScan" -> py_RecursionScan(x[1], x[2], x[3])
      [] f = "detect_recursion" -> py_detect_recursion(x[1])
      [] f = "SplitWSMax" -> py_SplitWSMax(x[1], x[2])
      [] f = "expand_files" -> py_expand_files(x[1], x[2], x[3])
      [] f = "ExpandLoop" -> py_ExpandLoop(x[1], x[2], x[3], x[4], x[5])
      [] f = "ExtractLoop" -> py_ExtractLoop(x[1], x[2], x[3], x[4], x[5], x[6])
      [] f = "extract_namespaces" -> py_extract_namespaces(x[1], x[2])
      [] f = "Prologue" -> py_Prologue(x[1])
      [] f = "UsingLoop" -> py_UsingLoop(x[1], x[2], x[3], x[4], x[5])
      [] f = "debug_match" -> py_debug_match(x[1])
      [] f = "Stripped" -> py_Stripped(x[1], x[2])
      [] f = "Decide" -> py_Decide(x[1], x[2])
      [] f = "DoUsing" -> py_DoUsing(x[1], x[2])
      [] f = "DoMod" -> py_DoMod(x[1])
      [] f = "DoExpandError" -> py_DoExpandError(x[1], x[2])
      [] f = "DoInfiniteExpansion" -> py_DoInfiniteExpansion(x[1])
      [] f = "DoExpand" -> py_DoExpand(x[1], x[2])
      [] f = "DoCases" -> py_DoCases(x[1], x[2])
      [] f = "DoEmit" -> py_DoEmit(x[1], x[2])
      [] f = "Iterate" -> py_Iterate(x[1], x[2], x[3])
      [] f = "DriverStep" -> py_DriverStep(x[1], x[2], x[3])
      [] f = "RunDriver" -> py_RunDriver(x[1], x[2], x[3])
      [] f = "transpile" -> py_transpile(x[1], x[2], x[3])

-----------------------------------------------------------------------------
(* transpile and generate_output as steps of the run *)

\* What hist keeps: the last step taken; counts of the includer's events;
\* for every line that entered the work queue from the input (a root) its
\* source line, the number of nested `$using` splices that brought it in and
\* the number of expansions that stem from it; for every
\* line of the work queue and of the emit stream the root it stems from;
\* and the line and the replacement of the last expansion.
HistInit ==
    [last |-> "Init", revisits |-> 0, missing |-> 0, noarg |-> 0, loads |-> <<>>,
     root_lines |-> <<>>, root_depth |-> <<>>, expansions |-> <<>>, roots |-> <<>>,
     final_roots |-> <<>>,
     caller |-> <<>>, new_lines |-> <<>>]

\* the driver's state in the variables
D ==
    DriverState(raw_code_lines, i, expansion_counter, cases_indent_level,
                final_sl_lines, active_definitions, mod_value, error)

SetDriver(d) ==
    /\ raw_code_lines' = d.raw_code_lines
    /\ i' = d.i
    /\ expansion_counter' = d.expansion_counter
    /\ cases_indent_level' = d.cases_indent_level
    /\ final_sl_lines' = d.final_sl_lines
    /\ active_definitions' = d.active_definitions
    /\ mod_value' = d.mod_value
    /\ error' = d.error

RunUnchanged ==
    UNCHANGED <<fs, main_file, is_exec_mode, no_header, no_original, visited, stack,
                all_lines>>

\* lines 671-688
Prepared(p) ==
    /\ namespaces' = p.namespaces
    /\ SetDriver(p.driver)
    /\ hist' = [hist EXCEPT !.last = "Prepare",
                    !.root_lines = p.driver.raw_code_lines,
                    !.root_depth = [k \in 1..Len(p.driver.raw_code_lines) |-> 0],
                    !.expansions = [k \in 1..Len(p.driver.raw_code_lines) |-> 0],
                    !.roots = [k \in 1..Len(p.driver.raw_code_lines) |-> k]]

Prepare ==
    /\ pc = "prepare"
    /\ Prepared(Prologue(all_lines))
    /\ pc' = "driver"
    /\ UNCHANGED <<final_output_lines, line_mapping>>
    /\ RunUnchanged

\* one iteration of the while loop that goes the given way
Went(way, iteration) ==
    /\ iteration.way = way
    /\ SetDriver(iteration.next)

Iteration(way) ==
    /\ pc = "driver"
    /\ Running(D)
    /\ Went(way, Iterate(D, namespaces, is_exec_mode))
    /\ pc' = IF way \in {"ExpandError", "InfiniteExpansion"} THEN "failed" ELSE "driver"
    /\ UNCHANGED <<namespaces, final_output_lines, line_mapping>>
    /\ RunUnchanged

\* the root of the line at the loop's head
Root == hist.roots[i + 1]

\* hist after an iteration that ends with i += 1; emitted is the number of
\* lines it appended to the emit stream
Passed(way, emitted) ==
    [hist EXCEPT !.last = way, !.caller = Current(D), !.new_lines = <<>>,
                 !.final_roots = @ \o [k \in 1..emitted |-> Root]]

\* the work queue is followed up to this length; a `$using` step that finds
\* it longer is not taken
MaxQueueLen == 20

Using ==
    /\ Len(raw_code_lines) <= MaxQueueLen
    /\ Iteration("Using")
    /\ LET added == Len(raw_code_lines') - Len(raw_code_lines)
           h == Passed("Using", 0)
       IN hist' = [h EXCEPT
                     !.root_lines = @ \o Sub(raw_code_lines', i + 2, i + 1 + added),
                     !.root_depth = @ \o [k \in 1..added |-> hist.root_depth[Root] + 1],
                     !.expansions = @ \o [k \in 1..added |-> 0],
                     !.roots = Splice(@, i + 1, i + 1,
                                      [k \in 1..added |-> Len(hist.root_lines) + k])]

Mod ==
    /\ Iteration("Mod")
    /\ hist' = Passed("Mod", 0)

Expand ==
    /\ Iteration("Expand")
    /\ LET placed == Len(raw_code_lines') - Len(raw_code_lines) + 1
       IN hist' = [hist EXCEPT
                     !.last = "Expand", !.caller = Current(D),
                     !.new_lines = Sub(raw_code_lines', i + 1, i + placed),
                     !.expansions[Root] = @ + 1,
                     !.roots = Splice(@, i, i + 1, [k \in 1..placed |-> Root])]

ExpandError ==
    /\ Iteration("ExpandError")
    /\ hist' = [hist EXCEPT !.last = "ExpandError", !.caller = Current(D),
                            !.new_lines = <<>>]

InfiniteExpansion ==
    /\ Iteration("InfiniteExpansion")
    /\ hist' = [hist EXCEPT !.last = "InfiniteExpansion", !.caller = Current(D),
                            !.new_lines = <<>>, !.expansions[Root] = @ + 1]

DropDebugLine ==
    /\ Iteration("DropDebugLine")
    /\ hist' = Passed("DropDebugLine", 0)

Cases ==
    /\ Iteration("Cases")
    /\ hist' = Passed("Cases", Len(final_sl_lines') - Len(final_sl_lines))

Emit ==
    /\ Iteration("Emit")
    /\ hist' = Passed("Emit", 1)

-----------------------------------------------------------------------------
(* generate_output *)

\* str.splitlines(True) for text whose only line ends are "\n"
RECURSIVE Splitlines(_)
Splitlines(s) ==
    LET k == Find(s, "\n", 1) IN
    IF s = "" THEN <<>>
    ELSE IF k = 0 THEN <<s>>
    ELSE <<Sub(s, 1, k)>> \o Splitlines(From(s, k + 1))

\* DEFAULT_HEADER, its first line (a sentence in Japanese) written in ASCII
DEFAULT_HEADER ==
    "(this program was transformed by a specific algorithm; no AI was involved)\n"
    \o "This program was transformed by a specific algorithm, and no AI was involved in the process.\n"
    \o "\n"
    \o "github:\n"
    \o "https://github.com/potatoo1211/pyx-launguage"

\* args.comment_style and args.header_b64 at their defaults
comment_style == "'''"

header_block == comment_style \o "\n" \o DEFAULT_HEADER \o "\n" \o comment_style \o "\n"

\* f.read() of the main file
original_code(files, filepath) == Join(files[filepath])

orig_block(files, filepath) ==
    comment_style \o "\n[Original Code]\n" \o original_code(files, filepath) \o "\n"
        \o comment_style \o "\n"

\* final_output_lines in front of the body: lines 785-801
FrontLines(files, filepath, hide_header, hide_original, final_sl_list) ==
    (IF hide_header THEN <<>> ELSE Splitlines(header_block))
    \o (IF hide_original THEN <<>> ELSE Splitlines(orig_block(files, filepath)))
    \o (IF detect_recursion(final_sl_list)
        THEN <<"import sys\n", "sys.setrecursionlimit(10 ** 6)\n">> ELSE <<>>)

\* lines 803-807: the body's chunks and line_mapping, keyed from
\* current_line_idx = len(final_output_lines) on
BodyMapping(front, final_sl_list) ==
    [k \in Len(front)..(Len(front) + Len(final_sl_list) - 1) |->
        final_sl_list[k - Len(front) + 1]]

\* lines 803-807 after the lines `front`
Generated(front) ==
    /\ final_output_lines' =
           front \o [k \in 1..Len(final_sl_lines) |-> final_sl_lines[k].content]
    /\ line_mapping' = BodyMapping(front, final_sl_lines)

\* generate_output after a transpile that returned: lines 780-809
GenerateOutput ==
    /\ pc = "driver"
    /\ ~Running(D)
    /\ Generated(FrontLines(fs, main_file, no_header, no_original, final_sl_lines))
    /\ pc' = "done"
    /\ hist' = [hist EXCEPT !.last = "GenerateOutput"]
    /\ UNCHANGED <<namespaces, raw_code_lines, i, expansion_counter, cases_indent_level,
                   final_sl_lines, active_definitions, mod_value, error>>
    /\ RunUnchanged

\* the text generate_output returns
code_text == Join(final_output_lines)

-----------------------------------------------------------------------------
(* The inputs of the runs *)

\* a disk with the main file alone
Main(lines) == "main.pyx" :> lines

InputBlockMacro ==
    Main(<<"!macro M(): print(1)\n", "\n", "M()\n", "y = M()\n">>)

InputBlockDefine ==
    Main(<<"!define D:\n", "    a\n", "    b\n", "\n", "x = D\n">>)

InputInclude ==
    Main(<<"$expand b.pyx\n", "y = 2\n">>) @@ ("b.pyx" :> <<"x = 1">>)

InputIncludes ==
    Main(<<"$expand a.pyx\n", "$expand\n", "$expand nofile.pyx\n", "$expand a.pyx\n", "m = 1\n">>)
        @@ ("a.pyx" :> <<"$expand main.pyx\n", "a = 1\n">>)

InputRecursion ==
    Main(<<"def f(n):\n", "    return f(n - 1)\n", "f(3)\n">>)

\* one more tombstoned line than the expansion limit
InputTombstones ==
    Main(<<"$debug !define D: print(1)\n">>
             \o [k \in 1..(MAX_EXPANSION_DEPTH + 1) |-> "D\n"] \o <<"z\n">>)

InputTombstoneMod ==
    Main(<<"$debug !define D: print(1)\n", "D\n", "$mod 7\n", "z %+= 1\n">>)

InputSelfDefine ==
    Main(<<"!define A: A\n", "A\n">>)

InputDebugOnly ==
    Main(<<"$debug !method v.log(x): print(v, x)\n", "a.log(1)\n",
           "$debug !macro G(x): print(x)\n", "G(1)\n", "z = G(2) + 1\n",
           "$debug !define T: print(0)\n", "T\n", "w = [T]\n">>)

InputDebugLines ==
    Main(<<"!macro M():\n", "    print(1)\n", "    print(2)\n", "?M()\n", "?print(3)\n",
           "  ? x = 1\n">>)

InputDebugDefine ==
    Main(<<"$debug !define D: print(1)\n", "D\n", "k = 1\n">>)

InputDeclarations ==
    Main(<<"?!define X: 1\n", "!macro G():\n", "    !define Y: 2\n", "    q\n", "G()\n",
           "!macro foo: bar\n">>)

InputDefine ==
    Main(<<"!define N: 10\n", "x = N + NN + 'N' # N\n", "y = N\n", "z = [N, N]\n">>)

InputDefineWord ==
    Main(<<"!define N: 10\n", "x = N + 1\n", "NN = 'N'\n", "# N\n">>)

InputSquare ==
    Main(<<"!macro SQ(x): x*x\n", "y = SQ(3+1)\n", "y = SQ(a)\n", "y = SQ(2)\n">>)

InputDefault ==
    Main(<<"!macro F(x=1): x+x\n", "F(a+1)\n", "F()\n", "z=F(3)\n", "F(1+2)\n">>)

InputArguments ==
    Main(<<"!macro SQ(x): x*x\n", "y = SQ(3+1)\n", "!macro F(x=1): x+x\n", "F(a+1)\n",
           "w = SQ(a+1)\n">>)

InputNamespaces ==
    Main(<<"$namespace lib\n", "!macro P(x): print(x)\n", "q = 1\n", "$\n",
           "$name lib2 !define K: 5\n", "$name default r = 0\n",
           "$using lib, lib2, nope\n", "P(K)\n", "$mod 7\n", "a %+= K\n", "$cases t\n",
           "P(1)\n", "\n", "$cases 1\n", "$cases\n", "?w\n">>)

InputIndexError ==
    Main(<<"!macro E(x): x![1]\n", "k = 0\n", "E(5)\n">>)

\* as many tombstoned lines as the expansion limit allows, a `$cases 1` line,
\* and one more; then nested `$cases` scopes
InputCasesOne ==
    Main(<<"$debug !define D: print(1)\n">>
             \o [k \in 1..MAX_EXPANSION_DEPTH |-> "D\n"]
             \o <<"  $cases 1\n", "D\n", "$cases t\n", "x = 1\n", "  $cases  n + 1 \n",
                  "\n", "   \n", "  y = 2\n", "$cases 1\n", "z = 3">>)

\* V has both variants, W only the debug one, U only the normal one
InputVariants ==
    Main(<<"!define V: 1\n", "$debug !define V: 2\n", "$debug !define W: 3\n",
           "!define U: 4\n", "x = V + W + U\n">>)

\* parameter lists with defaults, a variadic parameter, and parameters after it
InputVariadic ==
    Main(<<"!macro J(*a, sep=0): f(a, sep)\n", "J(1, 2)\n", "J()\n",
           "!macro K(p, q=5, r): g(p, q, r)\n", "K()\n", "K(1,2,3,4)\n",
           "!macro L(p, *r): h(p, r)\n", "L()\n", "L(1,2,3)\n">>)

\* a function that calls itself on the line of its def
InputOneLineRecursion ==
    Main(<<"def f(): f()\n", "print(1)\n">>)

\* a function called from a function nested in it
InputNestedRecursion ==
    Main(<<"async  def f(n):\n", "    def g():\n", "        return f(n - 1)\n",
           "    return g()\n">>)

\* the index operator on a list of three arguments, in range from both ends,
\* then out of range on a list of two
InputIndex ==
    Main(<<"!macro P(*x): [x![0], x![-1]]\n", "!macro Q(*x): x![ 2 ]\n",
           "!macro R(*x): x![-3]\n", "!macro S(x): x![0]\n", "u = P(a, b, c)\n",
           "v = Q(a, b, c)\n", "w = R(a, b, c)\n", "s = S(7)\n", "t = Q(a, b)\n">>)

\* nested macro calls and a define in a macro call, the inner macro and the
\* macro registered first
InputOrder ==
    Main(<<"!macro B(x): x+1\n", "!macro A(x): [x, x]\n", "y = A(B(1))\n",
           "w = B(A(1))\n", "!macro M(x): (x)\n", "!define N: 2\n", "z = M(N)\n">>)

\* uses of a name before its declaration, between two declarations and
\* after them
InputDeclarationOrder ==
    Main(<<"a = N\n", "!define N: 1\n", "b = N\n", "!define N: 2\n", "c = N\n",
           "p = F(0)\n", "!macro F(x): x + 1\n", "q = F(0)\n">>)

\* a namespace whose own lines hold a `$using` of itself
InputSelfUsing ==
    Main(<<"$namespace lib\n", "x = 1\n", "$using lib\n", "$\n", "$using lib\n",
           "y = 2\n">>)

\* a block macro whose first branch is indented deeper than the line after it
InputIndentation ==
    Main(<<"!macro M(x):\n", "    !if x == 1:\n", "        alpha()\n", "    beta_long()\n",
           "if k:\n", "  M(1)\n", "  M(2)\n">>)

Inputs ==
    {InputBlockMacro, InputBlockDefine, InputInclude, InputIncludes, InputRecursion,
     InputTombstones, InputTombstoneMod, InputSelfDefine, InputDebugOnly,
     InputDebugLines, InputDebugDefine, InputDeclarations, InputDefine,
     InputDefineWord, InputSquare, InputDefault, InputArguments, InputNamespaces,
     InputIndexError,
     InputCasesOne,
     InputVariants,
     InputVariadic,
     InputOneLineRecursion, InputNestedRecursion,
     InputIndex,
     InputOrder,
     InputDeclarationOrder,
     InputSelfUsing,
     InputIndentation}

-----------------------------------------------------------------------------
(* The run *)

\* the state in which generate_output(main_file, is_exec_mode, args) calls
\* transpile, which calls expand_files(main_file)
Start(files) ==
    /\ fs = files
    /\ main_file = "main.pyx"
    /\ pc = "expand_files"
    /\ visited = {}
    /\ stack = <<CallFrame("main.pyx")>>
    /\ all_lines = <<>>
    /\ namespaces = EmptyNamespaces
    /\ active_definitions = <<>>
    /\ mod_value = <<>>
    /\ raw_code_lines = <<>>
    /\ i = 0
    /\ expansion_counter = 0
    /\ cases_indent_level = 0
    /\ final_sl_lines = <<>>
    /\ error = <<>>
    /\ final_output_lines = <<>>
    /\ line_mapping = <<>>
    /\ hist = HistInit

Init ==
    /\ \E files \in Inputs : Start(files)
    /\ is_exec_mode \in BOOLEAN
    /\ no_header \in BOOLEAN
    /\ no_original \in BOOLEAN

Next ==
    \/ EF_AlreadyVisited
    \/ EF_MissingFile
    \/ EF_Load
    \/ EF_Expand
    \/ EF_ExpandNoArg
    \/ EF_Line
    \/ EF_Return
    \/ Prepare
    \/ Using
    \/ Mod
    \/ Expand
    \/ ExpandError
    \/ InfiniteExpansion
    \/ DropDebugLine
    \/ Cases
    \/ Emit
    \/ GenerateOutput

Spec == Init /\ [][Next]_vars

-----------------------------------------------------------------------------
(* The runs of expand_files alone, over a family of `$expand` graphs *)

MainLines ==
    {"$expand main.pyx\n", "$expand a.pyx\n", "$expand b.pyx\n", "$expand\n",
     "$expand none.pyx\n", "m = 1\n"}

ALines == {"$expand c.pyx\n", "$expand main.pyx\n", "a = 1\n"}

FamilyB ==
    {<<"$expand c.pyx\n", "b = 1\n">>, <<"$expand a.pyx\n">>,
     <<"$expand b.pyx\n", "b = 1\n">>}

FamilyC == {<<"c = 1\n">>, <<"  $expand   a.pyx  \n", "c = 1">>}

Graph(m, a, b, c) ==
    ("main.pyx" :> m) @@ ("a.pyx" :> a) @@ ("b.pyx" :> b) @@ ("c.pyx" :> c)

\* a diamond (a.pyx and b.pyx both include c.pyx) with cycles, a missing
\* target and a `$expand` without argument
GraphDiamond ==
    Graph(<<"$expand main.pyx\n", "$expand a.pyx\n", "$expand\n", "$expand none.pyx\n",
            "$expand b.pyx\n", "m = 1\n">>,
          <<"$expand c.pyx\n", "a = 1\n">>,
          <<"b = 1\n", "$expand c.pyx\n", "$expand a.pyx\n">>,
          <<"c = 1\n", "$expand main.pyx\n">>)

IncludeGraphs ==
    {Graph(m, a, b, c) : m \in MainLines \X MainLines,
                         a \in {<<x>> : x \in ALines} \cup (ALines \X ALines),
                         b \in FamilyB, c \in FamilyC}
        \cup {GraphDiamond}

InitFiles ==
    /\ \E files \in IncludeGraphs : Start(files)
    /\ is_exec_mode = FALSE
    /\ no_header = TRUE
    /\ no_original = TRUE

NextFiles ==
    \/ EF_AlreadyVisited
    \/ EF_MissingFile
    \/ EF_Load
    \/ EF_Expand
    \/ EF_ExpandNoArg
    \/ EF_Line
    \/ EF_Return

\* the interpreter goes on as long as expand_files has a step to take
SpecFiles == InitFiles /\ [][NextFiles]_vars /\ WF_vars(NextFiles)

-----------------------------------------------------------------------------
(* The include pass: claim C4 *)

\* expand_files has returned to transpile
Finished == pc # "expand_files"

Coord(sl) == <<sl.filename, sl.lineno>>

\* the files that were loaded
LoadedFiles == {hist.loads[k].path : k \in 1..Len(hist.loads)}

\* the lines of the loaded files that are not `$expand` lines
KeptLines ==
    UNION {{SourceLine(fs[f][n], f, n) :
                n \in {m \in 1..Len(fs[f]) : ~IsExpand(SourceLine(fs[f][m], f, m))}} :
           f \in LoadedFiles}

\* no coordinate occurs twice in the flat sequence
AtMostOnce ==
    \A j, k \in 1..Len(all_lines) : Coord(all_lines[j]) = Coord(all_lines[k]) => j = k

\* the flat sequence holds exactly the kept lines of the loaded files: a
\* `$expand` that adds nothing does not end the processing of its file
AllKept == {all_lines[k] : k \in 1..Len(all_lines)} = KeptLines

\* the lines of a file stand in the flat sequence where the `$expand` line
\* that loaded it stands in the including file, and in their own order
InPlace ==
    /\ \A j, k \in 1..Len(all_lines) :
          (all_lines[j].filename = all_lines[k].filename
               /\ all_lines[j].lineno < all_lines[k].lineno) => j < k
    /\ \A n \in 1..Len(hist.loads) : hist.loads[n].at # <<>> =>
          \A j, k \in 1..Len(all_lines) :
              (all_lines[j].filename = hist.loads[n].at[1].filename
                   /\ all_lines[k].filename = hist.loads[n].path) =>
                  IF all_lines[j].lineno < hist.loads[n].at[1].lineno THEN j < k ELSE j > k

\* C4: over the family of `$expand` graphs (self-cycles, longer cycles,
\* diamonds, missing targets, `$expand` without argument) expand_files
\* terminates, and when it has, the flat sequence holds the lines of each
\* loaded file at most once, at the place of the first `$expand` that reached
\* the file, and nothing is lost after a `$expand` that contributes no line.
C4_ExpandFilesTerminates ==
    /\ <>Finished
    /\ [](Finished => AtMostOnce /\ AllKept /\ InPlace)

\* the diamond with cycles has been flattened: four files loaded, three
\* revisits, a missing target and a `$expand` without argument met
C4_Witness ==
    /\ Finished
    /\ fs = GraphDiamond
    /\ Len(hist.loads) = 4 /\ hist.revisits >= 3 /\ hist.missing = 1 /\ hist.noarg = 1
    /\ [k \in 1..Len(all_lines) |-> all_lines[k].content]
           = <<"c = 1\n", "a = 1\n", "b = 1\n", "m = 1\n">>

-----------------------------------------------------------------------------
(* The driver: claims C1, C3 *)

\* C1: whenever the driver replaces a line by an expansion, every
\* replacement line placed in the work queue carries the file and the line
\* number of the invoking call-site line.
C1_CallerOrigin ==
    hist.last = "Expand" =>
        \A k \in 1..Len(hist.new_lines) :
            /\ hist.new_lines[k].filename = hist.caller.filename
            /\ hist.new_lines[k].lineno = hist.caller.lineno

\* the decisions of the driver that are not expansions
NonExpansion == {"Using", "Mod", "DropDebugLine", "Cases", "Emit"}

\* C3: the expansion counter is 0 after every non-expansion decision ($using,
\* $mod, dropped or stripped debug line, $cases, final emission), and the
\* infinite-expansion failure is raised only when more than
\* MAX_EXPANSION_DEPTH expansions stem from one single input line.
C3_CounterPerLine ==
    /\ hist.last \in NonExpansion => expansion_counter = 0
    /\ hist.last = "InfiniteExpansion" =>
           \E r \in 1..Len(hist.expansions) : hist.expansions[r] > MAX_EXPANSION_DEPTH

-----------------------------------------------------------------------------
(* The source map: claim C2 *)

\* the lines of the emitted text
TextLines == Splitlines(code_text)

\* the number of lines in front of the body
FrontLen == Len(final_output_lines) - Len(final_sl_lines)

\* a coordinate of a line that load_file has read
Loaded(sl) ==
    /\ sl.filename \in DOMAIN fs
    /\ sl.lineno \in 1..Len(fs[sl.filename])

\* C2: the source map has an entry exactly for the body lines: each key is
\* the 0-based number of the line the body line occupies in the emitted text,
\* each value the coordinate of a loaded line, and no line of the header, the
\* original block or the preamble has an entry.
C2_SourceMap ==
    pc = "done" =>
        /\ DOMAIN line_mapping = FrontLen..(Len(TextLines) - 1)
        /\ \A k \in DOMAIN line_mapping :
              /\ k + 1 <= Len(TextLines)
              /\ TextLines[k + 1] = line_mapping[k].content
              /\ Loaded(line_mapping[k])

-----------------------------------------------------------------------------
(* Debug-only definitions and debug lines: claims C5, C6, C7 *)

\* the input line an emitted line stems from
RootOf(k) == hist.root_lines[hist.final_roots[k]]

\* the invocations of the definition d on a line, by its kind
Invocations(text, d) ==
    IF IsMethod(d) THEN MethodMatches(text, d.name, 1)
    ELSE IF d.is_macro THEN MacroMatches(text, d.name, 1)
    ELSE DefineMatches(text, d.name, 1)

\* the names that have a debug variant only
DebugOnly ==
    {q \in 1..Len(active_definitions) :
        active_definitions[q].normal = <<>> /\ active_definitions[q].debug # <<>>}

\* C5: in non-exec mode no invocation of a name that has only a debug
\* variant, whatever its kind (define, macro, method invoked as
\* receiver.name(...)), remains on a line of the emit stream.
C5_TombstonesErased ==
    (~is_exec_mode /\ hist.last = "Emit") =>
        \A q \in DebugOnly :
            Invocations(final_sl_lines[Len(final_sl_lines)].content,
                        active_definitions[q].debug[1]) = <<>>

\* a line whose first non-blank character is `?`
IsDebugLine(content) == Ch(content, SkipSpace(content, 1)) = "?"

\* C6: in non-exec mode an input line whose first non-blank character is `?`
\* contributes no line to the emit stream, whatever it contains after the
\* `?`; in exec mode what it contributes has lost the `?`.
C6_DebugLinesDropped ==
    \A k \in 1..Len(final_sl_lines) :
        IsDebugLine(RootOf(k).content) =>
            is_exec_mode /\ ~IsDebugLine(final_sl_lines[k].content)

\* a line without its `$debug` prefix
WithoutDebugPrefix(content) ==
    IF At(content, "$debug", SkipSpace(content, 1))
    THEN Sub(content, 1, SkipSpace(content, 1) - 1)
             \o From(content, SkipSpace(content, SkipSpace(content, 1) + 6))
    ELSE content

\* the files without their `$debug` prefixes and their `?` lines
StripDebug(files) ==
    [f \in DOMAIN files |->
        LET kept == SelectSeq(files[f], LAMBDA content : ~IsDebugLine(content))
        IN [k \in 1..Len(kept) |-> WithoutDebugPrefix(kept[k])]]

\* the contents of a sequence of source lines
Body(lines) == [k \in 1..Len(lines) |-> lines[k].content]

\* the result of transpile as its error and its body
Outcome(d) == [error |-> d.error, body |-> Body(d.final_sl_lines)]

\* C7: transpiling in non-exec mode the input from which all `$debug`
\* prefixes and all `?` lines have been removed yields the same body as
\* transpiling the original input in non-exec mode.
C7_DebugStripping ==
    (pc = "done" /\ ~is_exec_mode) =>
        Outcome(transpile(StripDebug(fs), main_file, FALSE))
            = [error |-> <<>>, body |-> Body(final_sl_lines)]

-----------------------------------------------------------------------------
(* Declarations and defines: claims C8, C9 *)

\* a definition declaration: the stripped form, after an optional `$debug`,
\* begins with `!macro`, `!method` or `!define`
IsDeclaration(content) ==
    \E keyword \in {"!macro", "!method", "!define"} :
        StartsWith(Strip(WithoutDebugPrefix(content)), keyword)

\* C8: no definition declaration is ever appended to the emit stream, in
\* either mode, also when it reaches the driver through a `$using` splice,
\* through a macro expansion or after the `?` has been stripped in exec mode.
C8_NoDeclarationEmitted ==
    \A k \in 1..Len(final_sl_lines) : ~IsDeclaration(final_sl_lines[k].content)

\* name stands at position p of text as a whole word
WordAt(text, name, p) ==
    /\ At(text, name, p)
    /\ ~IsWord(Ch(text, p - 1))
    /\ ~IsWord(Ch(text, p + Len(name)))

\* text from position p on with body in the place of the whole-word
\* occurrences of name outside string literals and in front of a comment
RECURSIVE Substituted(_, _, _, _)
Substituted(text, name, body, p) ==
    IF p > Len(text) THEN ""
    ELSE IF WordAt(text, name, p) /\ is_index_safe(text, p)
    THEN body \o Substituted(text, name, body, p + Len(name))
    ELSE Ch(text, p) \o Substituted(text, name, body, p + 1)

\* a `!define` with a body of one token is the only definition
OneTokenDefine ==
    /\ Len(active_definitions) = 1
    /\ active_definitions[1].debug = <<>>
    /\ active_definitions[1].normal # <<>>
    /\ ~active_definitions[1].normal[1].is_macro
    /\ ~IsMethod(active_definitions[1].normal[1])
    /\ Len(active_definitions[1].normal[1].body_lines) = 1
    /\ SplitWS(active_definitions[1].normal[1].body_lines[1].content)
           = <<Strip(active_definitions[1].normal[1].body_lines[1].content)>>

\* C9: a `!define` whose body is a single token replaces, on any line,
\* exactly the occurrences of its name that are whole words outside string
\* literals and in front of any `#` comment, and leaves the others unchanged.
C9_DefineSubstitution ==
    (hist.last = "Emit" /\ OneTokenDefine /\ ~IsDebugLine(RootOf(Len(final_sl_lines)).content)) =>
        final_sl_lines[Len(final_sl_lines)].content
            = Substituted(RootOf(Len(final_sl_lines)).content, active_definitions[1].name,
                          Strip(active_definitions[1].normal[1].body_lines[1].content), 1)

-----------------------------------------------------------------------------
(* Macro arguments: claim C10 *)

\* what the lines of InputSquare, InputDefault and InputArguments are emitted
\* as: an argument that is arithmetic on numbers is replaced by its value,
\* any other argument is substituted as written, and no parentheses are added
EmittedAs ==
    ("y = SQ(3+1)\n" :> "y = 4*4\n") @@ ("y = SQ(a)\n" :> "y = a*a\n")
        @@ ("y = SQ(2)\n" :> "y = 2*2\n") @@ ("w = SQ(a+1)\n" :> "w = a+1*a+1\n")
        @@ ("F(a+1)\n" :> "a+1+a+1\n") @@ ("F()\n" :> "1+1\n")
        @@ ("z=F(3)\n" :> "z=3+3\n") @@ ("F(1+2)\n" :> "3+3\n")

\* C10: macro arguments are substituted with no precedence-adjusting
\* parentheses, after an argument that is arithmetic on numbers has been
\* replaced by its value: with `!macro SQ(x): x*x` the line `y = SQ(3+1)` is
\* emitted as `y = 4*4` and `w = SQ(a+1)` as `w = a+1*a+1`, and with
\* `!macro F(x=1): x+x` the line `F(a+1)` is emitted as `a+1+a+1`.
C10_MacroArguments ==
    fs \in {InputSquare, InputDefault, InputArguments} =>
        /\ \A k \in 1..Len(final_sl_lines) :
              final_sl_lines[k].content = EmittedAs[RootOf(k).content]
        /\ pc = "done" => Len(final_sl_lines) = Len(hist.root_lines)

\* both macros have been expanded on the lines of InputArguments
C10_Witness ==
    /\ pc = "done"
    /\ fs = InputArguments
    /\ Body(hist.root_lines) = <<"y = SQ(3+1)\n", "F(a+1)\n", "w = SQ(a+1)\n">>
    /\ Body(final_sl_lines) = <<"y = 4*4\n", "a+1+a+1\n", "w = a+1*a+1\n">>

\* C10 as it was stated: the argument text is substituted as written, so
\* that `y = SQ(3+1)` is emitted as `y = 3+1*3+1` and `F(a+1)` as `a+1+a+1`.
C10_AsWritten ==
    \A k \in 1..Len(final_sl_lines) :
        /\ RootOf(k).content = "y = SQ(3+1)\n" =>
               final_sl_lines[k].content = "y = 3+1*3+1\n"
        /\ RootOf(k).content = "F(a+1)\n" => final_sl_lines[k].content = "a+1+a+1\n"

-----------------------------------------------------------------------------
(* `$cases`: claim C11 *)

\* the N of a `$cases N` line, <<>> when the line has none
CasesArg(content) ==
    LET parts == SplitWSMax(Strip(content), 1)
    IN IF Len(parts) > 1 THEN <<Strip(parts[2])>> ELSE <<>>

\* a `$cases 1` line
IsCasesOne(content) ==
    StartsWith(Strip(content), "$cases") /\ CasesArg(content) = <<"1">>

\* the files without their `$cases 1` lines
WithoutCasesOne(files) ==
    [f \in DOMAIN files |-> SelectSeq(files[f], LAMBDA content : ~IsCasesOne(content))]

\* what a `$cases` step does to the emit stream and to the depth
CasesStep ==
    LET sl == Stripped(Current(D), is_exec_mode)
        N == CasesArg(sl.content)
    IN IF N # <<>> /\ N # <<"1">>
       THEN /\ Len(final_sl_lines') = Len(final_sl_lines) + 1
            /\ final_sl_lines'[Len(final_sl_lines')].content =
                   LeadingSpace(sl.content) \o Repeat("    ", cases_indent_level)
                       \o "for _ in range(" \o N[1] \o "):\n"
            /\ cases_indent_level' = cases_indent_level + 1
       ELSE /\ final_sl_lines' = final_sl_lines
            /\ cases_indent_level' = cases_indent_level

\* what an emission appends: the line behind 4 spaces per depth, a blank
\* line as it is
EmitStep ==
    LET line == final_sl_lines'[Len(final_sl_lines')].content
        text == process_mod_ops(Stripped(Current(D), is_exec_mode).content, mod_value)
    IN /\ Len(final_sl_lines') = Len(final_sl_lines) + 1
       /\ line = IF IsBlank(text) THEN text
                 ELSE Repeat("    ", cases_indent_level) \o text
       /\ cases_indent_level' = cases_indent_level

\* the run on the input without its `$cases 1` lines ends the same way
SameWithoutCasesOne ==
    Outcome(transpile(WithoutCasesOne(fs), main_file, is_exec_mode))
        = [error |-> <<>>, body |-> Body(final_sl_lines)]

\* C11: the `$cases` depth never decreases; `$cases N` with N other than `1`
\* emits the header `for _ in range(N):` behind the line's own indent and 4
\* spaces per depth and increments the depth; `$cases 1` emits nothing and
\* leaves the depth unchanged, so that the output equals that of the input
\* without the `$cases 1` lines; a non-blank line is emitted behind 4 spaces
\* per depth and a blank line unprefixed.
C11_CasesDepth ==
    [][/\ cases_indent_level' >= cases_indent_level
       /\ hist'.last = "Cases" => CasesStep
       /\ hist'.last = "Emit" => EmitStep
       /\ hist'.last = "GenerateOutput" => SameWithoutCasesOne]_vars

\* C11 without its last part: the steps of `$cases` and of the emission
C11_CasesSteps ==
    [][/\ cases_indent_level' >= cases_indent_level
       /\ hist'.last = "Cases" => CasesStep
       /\ hist'.last = "Emit" => EmitStep]_vars

-----------------------------------------------------------------------------
(* Lookup by mode: claim C12 *)

\* the variant registered for a name under "normal" or "debug"; <<>> when
\* there is none
Registered(name, variant) ==
    LET at == {q \in 1..Len(active_definitions) : active_definitions[q].name = name}
    IN IF at = {} THEN <<>>
       ELSE IF variant = "debug" THEN active_definitions[CHOOSE q \in at : TRUE].debug
       ELSE active_definitions[CHOOSE q \in at : TRUE].normal

\* the names with a registration, and one without
LookupNames == {active_definitions[q].name : q \in 1..Len(active_definitions)} \cup {"none"}

\* the lookup of a name in the present table, in the given mode
Lookup(name, exec) == get_active_definition(active_definitions, exec, name)

IsTombstone(found) == found # <<>> /\ found[1].is_deleted

\* C12: in exec mode the lookup returns the debug variant when one is
\* registered and otherwise the normal one; in non-exec mode the normal
\* variant when one is registered, a tombstone when only a debug variant is,
\* and nothing when neither is; the normal variant is never returned in exec
\* mode while a debug variant exists.
C12_LookupByMode ==
    \A name \in LookupNames :
        LET normal == Registered(name, "normal")
            debug == Registered(name, "debug")
        IN /\ Lookup(name, TRUE) = IF debug # <<>> THEN debug ELSE normal
           /\ debug # <<>> /\ normal # debug => Lookup(name, TRUE) # normal
           /\ normal # <<>> => Lookup(name, FALSE) = normal /\ ~IsTombstone(normal)
           /\ normal = <<>> /\ debug # <<>> =>
                  /\ IsTombstone(Lookup(name, FALSE))
                  /\ Lookup(name, FALSE)[1].name = name
           /\ normal = <<>> /\ debug = <<>> => Lookup(name, FALSE) = <<>>

\* the run in exec mode has expanded with the table in which V has both
\* variants, W the debug one alone and U the normal one alone
C12_Witness ==
    /\ pc = "done"
    /\ fs = InputVariants
    /\ is_exec_mode
    /\ Registered("V", "normal") # <<>> /\ Registered("V", "debug") # <<>>
    /\ Registered("W", "normal") = <<>> /\ Registered("W", "debug") # <<>>
    /\ Registered("U", "normal") # <<>> /\ Registered("U", "debug") = <<>>
    /\ Body(final_sl_lines) = <<"x = 2 + 3 + 4\n">>

-----------------------------------------------------------------------------
(* Call-site argument binding: claim C13 *)

\* the lists of call arguments the binding is tried with
ArgLists == {<<>>, <<"1">>, <<"1", "2">>, <<"1", "2", "3">>, <<"1", "2", "3", "4">>}

\* the macros registered in the table of definitions
ActiveMacros ==
    {d \in UNION {{active_definitions[q].normal, active_definitions[q].debug} :
                      q \in 1..Len(active_definitions)} :
        d # <<>> /\ d[1].is_macro}

\* the position of the first variadic parameter, 0 when there is none
FirstVariadic(params) ==
    LET at == {q \in 1..Len(params) : params[q].is_variadic}
    IN IF at = {} THEN 0 ELSE CHOOSE q \in at : \A r \in at : q <= r

\* the binding the k-th parameter is to get from the arguments args
ExpectedBinding(params, args, k) ==
    LET v == FirstVariadic(params)
        param == params[k]
    IN IF param.is_variadic
       THEN ListVal(param.name, IF k = v THEN Sub(args, k, Len(args)) ELSE <<>>)
       ELSE IF (v = 0 \/ k < v) /\ k <= Len(args) THEN Scalar(param.name, args[k])
       ELSE IF param.default # <<>> THEN Scalar(param.name, param.default[1])
       ELSE Scalar(param.name, "None")

\* C13: positional arguments are bound to the parameters left to right; a
\* variadic parameter is bound to the list of all remaining arguments (the
\* empty list when none remain); each non-variadic parameter left without an
\* argument is bound to its default when it has one and otherwise to `None`.
C13_ArgumentBinding ==
    \A d \in ActiveMacros : \A args \in ArgLists :
        LET params == d[1].params
            bound == BindParams(<<>>, params, args, 0)
        IN \A k \in 1..Len(params) :
               /\ KeyIndex(bound, params[k].name) # 0
               /\ bound[KeyIndex(bound, params[k].name)] = ExpectedBinding(params, args, k)

\* C13 for the parameters that do not follow a variadic parameter
C13_UpToVariadic ==
    \A d \in ActiveMacros : \A args \in ArgLists :
        LET params == d[1].params
            bound == BindParams(<<>>, params, args, 0)
        IN \A k \in 1..Len(params) :
               (FirstVariadic(params) = 0 \/ k <= FirstVariadic(params)) =>
                   /\ KeyIndex(bound, params[k].name) # 0
                   /\ bound[KeyIndex(bound, params[k].name)]
                          = ExpectedBinding(params, args, k)

-----------------------------------------------------------------------------
(* The recursion preamble: claim C14 *)

\* a line that is neither blank nor a comment
IsCodeLine(text) == ~IsBlank(text) /\ ~StartsWith(Strip(text), "#")

\* the index-safe calls `name(` on a line
SafeCalls(text, name) ==
    SelectSeq(CallMatches(text, name, 1), LAMBDA p : is_index_safe(text, p))

\* line j lies in the scope of the def on line k: every code line after k up
\* to j is indented deeper than the def
InScopeOf(lines, k, j) ==
    /\ k < j
    /\ \A m \in (k + 1)..j :
           IsCodeLine(lines[m].content) =>
               get_indent_length(lines[m].content) > get_indent_length(lines[k].content)

\* the lines hold a def whose scope holds an index-safe call of its name, on
\* the line of the def itself (behind its header) or on a later line
HasRecursiveDef(lines) ==
    \E k \in 1..Len(lines) :
        LET text == lines[k].content
            name == DefName(Strip(text))
        IN /\ IsCodeLine(text)
           /\ name # ""
           /\ \/ Len(SafeCalls(text, name)) > 1
              \/ \E j \in (k + 1)..Len(lines) :
                     /\ InScopeOf(lines, k, j)
                     /\ IsCodeLine(lines[j].content)
                     /\ SafeCalls(lines[j].content, name) # <<>>

\* the header and the original-code block, as far as they are asked for
Blocks ==
    (IF no_header THEN <<>> ELSE Splitlines(header_block))
        \o (IF no_original THEN <<>> ELSE Splitlines(orig_block(fs, main_file)))

Preamble == <<"import sys\n", "sys.setrecursionlimit(10 ** 6)\n">>

\* C14: when the emit stream holds a def (optionally async) whose scope
\* holds an index-safe call of its name, the one-line form `def f(): f()`
\* included, the emitted text has the two-line recursion preamble right before
\* the first body line, after the header and the original-code block.
C14_RecursionPreamble ==
    (pc = "done" /\ HasRecursiveDef(final_sl_lines)) =>
        final_output_lines = Blocks \o Preamble \o Body(final_sl_lines)

\* C14 for a call on a line of its own directly in the body of the def
C14_PlainRecursion ==
    (pc = "done" /\ fs = InputRecursion) =>
        final_output_lines = Blocks \o Preamble \o Body(final_sl_lines)

-----------------------------------------------------------------------------
(* The index operator: claim C15 *)

\* the indices tried run from -MaxIndex to MaxIndex
MaxIndex == 4

\* the lists a name is bound to
IndexedLists == {<<>>, <<"a">>, <<"a", "b", "c">>}

\* x![i] rewritten under a binding of x
Indexed(binding, idx) == process_macro_ops("x![" \o IntToStr(idx) \o "]", <<binding>>)

\* the message of a macro-index error
IsIndexError(err) ==
    /\ err # <<>>
    /\ \/ StartsWith(err[1], "Macro index out of range")
       \/ StartsWith(err[1], "Cannot use index operator")

\* the message names the line: by its number or by its text
NamesLine(message, sl) ==
    \/ Contains(message, "line " \o IntToStr(sl.lineno))
    \/ Contains(message, Strip(sl.content))

\* the values and the failures of x![i]
IndexValues ==
    /\ \A list \in IndexedLists : \A idx \in (0 - MaxIndex)..MaxIndex :
           LET r == Indexed(ListVal("x", list), idx)
               n == Len(list)
           IN IF 0 <= idx /\ idx < n THEN r.err = <<>> /\ r.text = list[idx + 1]
              ELSE IF 0 - n <= idx /\ idx < 0 THEN r.err = <<>> /\ r.text = list[n + idx + 1]
              ELSE IsIndexError(r.err)
    /\ \A idx \in (0 - MaxIndex)..MaxIndex :
           LET r == Indexed(Scalar("x", "v"), idx)
           IN IF idx = 0 THEN r.err = <<>> /\ r.text = "v" ELSE IsIndexError(r.err)

\* a transpile that met a macro-index error returns no emit stream and
\* generate_output gives no output
IndexFailure ==
    (hist.last = "ExpandError" /\ IsIndexError(error)) =>
        /\ pc = "failed"
        /\ final_output_lines = <<>>
        /\ line_mapping = <<>>

\* C15: x![i] on a list-bound x of length n yields element i for 0 <= i < n
\* and element n+i for -n <= i < 0; for any other i, and for a scalar-bound x
\* with i other than 0, the transpile fails with a macro-index error that
\* names the offending line, and generate_output produces no output.
C15_IndexOperator ==
    /\ IndexValues
    /\ IndexFailure
    /\ (hist.last = "ExpandError" /\ IsIndexError(error)) =>
           NamesLine(error[1], hist.caller)

\* C15 without the naming of the line
C15_IndexValuesAndFailure == IndexValues /\ IndexFailure

-----------------------------------------------------------------------------
(* The choice of the match to expand: claim C16 *)

\* the definition the lookup gives for the q-th name of the table
ActiveAt(q) ==
    get_active_definition(active_definitions, is_exec_mode, active_definitions[q].name)

\* the index-safe calls on a line of the macro or method that is q-th in the table
CallsOf(text, q) ==
    SafeCallMatches(text,
        IF IsMethod(ActiveAt(q)[1])
        THEN MethodMatches(text, active_definitions[q].name, 1)
        ELSE MacroMatches(text, active_definitions[q].name, 1))

\* the defines with an index-safe match on the line
DefineHits(text) ==
    {q \in 1..Len(active_definitions) :
        /\ ActiveAt(q) # <<>>
        /\ ~ActiveAt(q)[1].is_macro
        /\ SafeDefineMatches(text, active_definitions[q].name) # <<>>}

\* the macros and methods with an index-safe call on the line
MacroHits(text) ==
    {q \in 1..Len(active_definitions) :
        /\ ActiveAt(q) # <<>>
        /\ ActiveAt(q)[1].is_macro
        /\ CallsOf(text, q) # <<>>}

\* the replacement of the line by the expansion of the q-th name
ExpansionBy(sl, q) ==
    ExpandName(active_definitions, is_exec_mode, sl, active_definitions[q].name).lines

\* the last step was an expansion of a define if one matched, and otherwise
\* of the macro call that starts leftmost on the line
ChosenByKindAndPosition ==
    LET sl == hist.caller
        defines == DefineHits(sl.content)
        macros == MacroHits(sl.content)
    IN IF defines # {}
       THEN \E q \in defines : hist.new_lines = ExpansionBy(sl, q)
       ELSE \E q \in macros :
               /\ \A r \in macros :
                      CallsOf(sl.content, q)[1].start <= CallsOf(sl.content, r)[1].start
               /\ hist.new_lines = ExpansionBy(sl, q)

\* C16: in each driver pass the match that gets expanded is chosen by kind
\* and position, not by the order of registration: a define before any macro
\* or method, and among the macro calls the leftmost, outermost one (for
\* `A(B(1))` the call of A before the call of B).
C16_ExpansionOrder ==
    hist.last = "Expand" => ChosenByKindAndPosition

\* the last step expanded the first name of the table that has a match
ChosenByRegistration ==
    LET sl == hist.caller
        hits == DefineHits(sl.content) \cup MacroHits(sl.content)
    IN \E q \in hits :
           /\ \A r \in hits : q <= r
           /\ hist.new_lines = ExpansionBy(sl, q)

\* the order the driver follows: that of the table of definitions
C16_RegistrationOrder ==
    hist.last = "Expand" => ChosenByRegistration

-----------------------------------------------------------------------------
(* The runs over a family of conditional chains: claim C17 *)

\* the conditions of the branches: true for x = 1, true for x = 2, and one
\* whose evaluation raises
CondTexts == {"x == 1", "x > 1", "x =="}

\* the conditions of a chain: those of its `!if` and of up to two `!elif`
CondLists == {<<c>> : c \in CondTexts} \cup (CondTexts \X CondTexts)
                 \cup (CondTexts \X CondTexts \X CondTexts)

\* a chain: its conditions, whether it ends with `!else`, the form of its
\* branches (code on the keyword line, an indented block, or an indented
\* block that is a chain itself), and the argument x is bound to
CondParams ==
    [conds : CondLists, else : BOOLEAN, form : {"inline", "block", "nested"},
     arg : {"1", "2"}]

\* the lines of one branch: its keyword line and its block
BranchLines(keyword, form, token) ==
    IF form = "inline" THEN <<"    " \o keyword \o " " \o token \o "\n">>
    ELSE IF form = "block" THEN <<"    " \o keyword \o "\n", "        " \o token \o "\n">>
    ELSE <<"    " \o keyword \o "\n",
           "        !if x == 1: " \o token \o "_one\n",
           "        !else:\n",
           "            " \o token \o "_other\n">>

RECURSIVE ElifLines(_, _)
ElifLines(p, k) ==
    IF k > Len(p.conds) THEN <<>>
    ELSE BranchLines("!elif " \o p.conds[k] \o ":", p.form, "b" \o IntToStr(k))
             \o ElifLines(p, k + 1)

\* the file of a chain: a macro whose body is a line, the chain and a line,
\* and a call of the macro
CondInput(p) ==
    Main(<<"!macro T(x):\n", "    pre\n">>
         \o BranchLines("!if " \o p.conds[1] \o ":", p.form, "b1")
         \o ElifLines(p, 2)
         \o (IF p.else THEN BranchLines("!else:", p.form, "b0") ELSE <<>>)
         \o <<"    post\n", "T(" \o p.arg \o ")\n">>)

CondInputs == {CondInput(p) : p \in CondParams}

InitConditionals ==
    /\ \E files \in CondInputs : Start(files)
    /\ is_exec_mode = FALSE
    /\ no_header = TRUE
    /\ no_original = TRUE

NextConditionals ==
    \/ EF_Load
    \/ EF_Line
    \/ EF_Return
    \/ Prepare
    \/ Expand
    \/ Emit
    \/ GenerateOutput

SpecConditionals == InitConditionals /\ [][NextConditionals]_vars

\* whether a condition is true when x is bound to arg
Holds(cond, arg) ==
    \/ cond = "x == 1" /\ arg = "1"
    \/ cond = "x > 1" /\ arg = "2"

\* the first branch of the chain whose condition is true, 0 when none is
FirstTrue(p) ==
    LET true == {k \in 1..Len(p.conds) : Holds(p.conds[k], p.arg)}
    IN IF true = {} THEN 0 ELSE CHOOSE k \in true : \A j \in true : k <= j

\* the token of the branch the chain selects, <<>> when it selects none
Selected(p) ==
    LET k == FirstTrue(p)
        token == IF k # 0 THEN <<"b" \o IntToStr(k)>>
                 ELSE IF p.else THEN <<"b0">> ELSE <<>>
    IN IF token = <<>> \/ p.form # "nested" THEN token
       ELSE IF p.arg = "1" THEN <<token[1] \o "_one">> ELSE <<token[1] \o "_other">>

\* the emit stream without the white space around its lines
StrippedBody == [k \in 1..Len(final_sl_lines) |-> Strip(final_sl_lines[k].content)]

\* C17: of an `!if` / `!elif` / `!else` chain in a macro body exactly the
\* block of the first branch whose condition is true is emitted (a condition
\* whose evaluation raises counts as false), the `!else` block when none is
\* true and nothing when there is no `!else`; the selected block is processed
\* in the same way, and the body lines before and after the chain are kept in
\* their order.
C17_FirstTrueBranch ==
    \A p \in CondParams :
        (pc = "done" /\ fs = CondInput(p)) =>
            /\ error = <<>>
            /\ StrippedBody = <<"pre">> \o Selected(p) \o <<"post">>

\* the chain whose `!if` raises, whose first `!elif` is false and whose second
\* `!elif` is true has been expanded, its blocks chains themselves
C17_Witness ==
    /\ pc = "done"
    /\ fs = CondInput([conds |-> <<"x ==", "x == 1", "x > 1">>, else |-> TRUE,
                       form |-> "nested", arg |-> "2"])
    /\ StrippedBody = <<"pre", "b3_other", "post">>

-----------------------------------------------------------------------------
(* Declarations in the main stream: claim C18 *)

\* the line declares the name in the mode (debug or normal)
Declares(content, name, debug) ==
    LET define == match_define(Strip(content))
        macro == match_macro(Strip(content))
        found == IF macro.ok THEN macro ELSE define
        dot == Find(found.name_part, ".", 1)
        declared == IF dot = 0 THEN found.name_part
                    ELSE Strip(From(found.name_part, dot + 1))
    IN found.ok /\ declared = name /\ found.is_debug = debug

\* the lines of the main file that declare what the definition d holds
DeclarationsOf(d) ==
    {k \in 1..Len(fs[main_file]) : Declares(fs[main_file][k], d.name, d.is_debug)}

\* the line of the main file on which the definition d was declared: the
\* last declaration at or before its first body line
DeclaredAt(d) ==
    LET at == {k \in DeclarationsOf(d) : k <= d.body_lines[1].lineno}
    IN CHOOSE k \in at : \A j \in at : j <= k

\* the last step expanded a line of the one input file as it was read, with
\* a definition that has a body
ExpandedInputLine(q) ==
    /\ hist.last = "Expand"
    /\ DOMAIN fs = {main_file}
    /\ \E k \in 1..Len(hist.root_lines) : hist.root_lines[k] = hist.caller
    /\ q \in DefineHits(hist.caller.content) \cup MacroHits(hist.caller.content)
    /\ hist.new_lines = ExpansionBy(hist.caller, q)
    /\ ~ActiveAt(q)[1].is_deleted
    /\ ActiveAt(q)[1].body_lines # <<>>
    /\ \E k \in DeclarationsOf(ActiveAt(q)[1]) : k <= ActiveAt(q)[1].body_lines[1].lineno

\* C18: a declaration in the main stream is registered when the driver
\* reaches its line: a line is expanded only by a definition declared before
\* it, and by the last declaration of that name and mode that precedes it.
C18_DeclarationOrder ==
    \A q \in 1..Len(active_definitions) :
        ExpandedInputLine(q) =>
            LET d == ActiveAt(q)[1]
            IN /\ DeclaredAt(d) < hist.caller.lineno
               /\ \A k \in DeclarationsOf(d) :
                      ~(DeclaredAt(d) < k /\ k < hist.caller.lineno)

\* what the driver does: the definition that expands a line is the last
\* declaration of its name and mode in the whole file
C18_LastDeclaration ==
    \A q \in 1..Len(active_definitions) :
        ExpandedInputLine(q) =>
            \A k \in DeclarationsOf(ActiveAt(q)[1]) : k <= DeclaredAt(ActiveAt(q)[1])

-----------------------------------------------------------------------------
(* Termination of the driver: claim C19 *)

\* the namespaces of the run
NamespaceNames == DOMAIN namespaces

\* C19: the driver loop of transpile terminates and no input, a namespace
\* whose own lines hold `$using` directives included, makes the work queue
\* grow without bound: no line enters the work queue through more nested
\* `$using` splices than there are namespaces, since beyond that a namespace
\* is spliced in from its own lines, again and again.
C19_QueueBounded ==
    \A r \in 1..Len(hist.root_depth) : hist.root_depth[r] <= Cardinality(NamespaceNames)

\* the driver on inputs without `$using`: it has finished, or failed, once
\* it has passed over as many lines as the input and its expansions hold
C19_NoUsingNoGrowth ==
    (\A f \in DOMAIN fs : \A k \in 1..Len(fs[f]) : ~StartsWith(Strip(fs[f][k]), "$using")) =>
        Len(hist.root_lines) <= Len(all_lines)

-----------------------------------------------------------------------------
(* De-indentation and re-indentation of a block expansion: claim C20 *)

\* the definitions registered in the table that are not tombstones
ActiveBodies ==
    {d[1] : d \in {e \in UNION {{active_definitions[q].normal, active_definitions[q].debug} :
                                    q \in 1..Len(active_definitions)} : e # <<>>}}

\* the lists of call arguments a body is rewritten with
BodyArgLists == {<<>>, <<"1">>, <<"2">>, <<"1", "2">>}

\* the leading white space of the call sites
CallIndents == {"", "  ", "\t"}

\* the body of d rewritten for the arguments args: the lines its conditionals
\* select, with the index operators and the parameters replaced; <<>> when
\* the rewriting fails
Rewritten(d, args) ==
    LET replacements == BindParams(BindReceiver(d, IF d.placeholder = "" THEN "" ELSE "v"),
                                   d.params, args, 0)
        processed == process_conditionals(d.body_lines, replacements)
        final == RewriteLines(processed.lines, replacements)
    IN IF processed.err # <<>> \/ final.err # <<>> THEN <<>> ELSE final.lines

\* a call that is the whole of its line, behind the leading white space base
WholeLineCall(base) == SourceLine(base \o "M()\n", "main.pyx", 1)

\* the indents of the lines of final_lines that are not blank
Indents(final_lines) ==
    {get_indent_length(final_lines[k].content) :
         k \in {q \in 1..Len(final_lines) : ~IsBlank(final_lines[q].content)}}

\* expanded is final_lines behind base with the first c columns removed, c a
\* common indent of the lines that are not blank
Reindented(final_lines, expanded, base, c) ==
    /\ Len(expanded) = Len(final_lines)
    /\ \A k \in 1..Len(final_lines) :
           IF IsBlank(final_lines[k].content) THEN IsBlank(expanded[k].content)
           ELSE /\ c <= get_indent_length(final_lines[k].content)
                /\ expanded[k].content
                       = base \o RStripNL(From(final_lines[k].content, c + 1)) \o "\n"

\* C20: de-indentation and re-indentation only change leading white space:
\* for every definition body and every binding, each line of a block
\* expansion is the call site's leading white space followed by the rewritten
\* body line with a common indent removed, so that the text of every body line
\* is emitted complete and the relative indentation between the body lines is
\* kept, also when the selected branch of a conditional leaves the first
\* remaining line more indented than a later one.
C20_BlockIndentation ==
    \A d \in ActiveBodies : \A args \in BodyArgLists : \A base \in CallIndents :
        LET final_lines == Rewritten(d, args)
            expanded == PlaceBody(final_lines, WholeLineCall(base), "M()")
        IN \E c \in Indents(final_lines) \cup {0} :
               Reindented(final_lines, expanded, base, c)

\* C20 for the bodies whose first line that is not blank is their shallowest
C20_ShallowestFirst ==
    \A d \in ActiveBodies : \A args \in BodyArgLists : \A base \in CallIndents :
        LET final_lines == Rewritten(d, args)
            expanded == PlaceBody(final_lines, WholeLineCall(base), "M()")
            first == FirstValid(final_lines)
        IN (first # 0 => \A c \in Indents(final_lines) :
                             get_indent_length(final_lines[first].content) <= c)
               => \E c \in Indents(final_lines) \cup {0} :
                      Reindented(final_lines, expanded, base, c)

====
